---- MODULE Spec2Model ----
(***************************************************************************)
(* Model of api/verify-single-address.js (both revisions held in the file) *)
(* of pankajbossgu/address-verification-app.                               *)
(*                                                                         *)
(* JavaScript strings that the code inspects with regular expressions,     *)
(* case conversion or substring search are sequences of one-character      *)
(* strings, so that every such operation is computed as the code computes  *)
(* it.  A JavaScript value is a record [t, v]: t is the type tag and v the *)
(* characters of a string or the decimal digits of a number.               *)
(***************************************************************************)
EXTENDS Integers, Sequences, FiniteSets, TLC

(***************************** characters **********************************)

DigitChars == {"0","1","2","3","4","5","6","7","8","9"}

UpperSeq ==
    << "A","B","C","D","E","F","G","H","I","J","K","L","M",
       "N","O","P","Q","R","S","T","U","V","W","X","Y","Z" >>

LowerSeq ==
    << "a","b","c","d","e","f","g","h","i","j","k","l","m",
       "n","o","p","q","r","s","t","u","v","w","x","y","z" >>

UpperChars == { UpperSeq[i] : i \in DOMAIN UpperSeq }

LowerChars == { LowerSeq[i] : i \in DOMAIN LowerSeq }

\* [A-Za-z0-9_]
WordChars == DigitChars \cup UpperChars \cup LowerChars \cup {"_"}

\* \w of a JavaScript regular expression
IsWordChar(c) == c \in WordChars

\* \s of a JavaScript regular expression (the characters the model uses)
IsSpaceChar(c) == c \in {" ", "\t", "\n"}

\* the lower-case letter of each upper-case letter
LowerOf ==
    [c \in UpperChars |-> LowerSeq[CHOOSE i \in DOMAIN UpperSeq : UpperSeq[i] = c]]

\* the upper-case letter of each lower-case letter
UpperOf ==
    [c \in LowerChars |-> UpperSeq[CHOOSE i \in DOMAIN LowerSeq : LowerSeq[i] = c]]

ToLowerChar(c) == IF c \in UpperChars THEN LowerOf[c] ELSE c

ToUpperChar(c) == IF c \in LowerChars THEN UpperOf[c] ELSE c

\* String.prototype.toLowerCase
toLowerCase(s) == [i \in 1..Len(s) |-> ToLowerChar(s[i])]

Min(S) == CHOOSE x \in S : \A y \in S : x <= y

\* String.prototype.includes
includes(s, sub) ==
    \E i \in 0..(Len(s) - Len(sub)) : SubSeq(s, i + 1, i + Len(sub)) = sub

\* String.prototype.trim
trim(s) ==
    LET n == Len(s)
        lead == CHOOSE k \in 0..n :
                    /\ \A j \in 1..k : IsSpaceChar(s[j])
                    /\ k = n \/ ~IsSpaceChar(s[k + 1])
        trail == CHOOSE k \in 0..n :
                    /\ \A j \in (n - k + 1)..n : IsSpaceChar(s[j])
                    /\ k = n \/ ~IsSpaceChar(s[n - k])
    IN  IF lead = n THEN <<>> ELSE SubSeq(s, lead + 1, n - trail)

\* String.prototype.substring(0, n)
substring0(s, n) == SubSeq(s, 1, IF Len(s) < n THEN Len(s) ELSE n)

\* s.split(' ')[0]
splitFirst(s) ==
    LET sp == { i \in 1..Len(s) : s[i] = " " }
    IN  IF sp = {} THEN s ELSE SubSeq(s, 1, Min(sp) - 1)

RECURSIVE NumToChars(_)
\* the decimal digits of a natural number, as a template literal prints it
NumToChars(n) ==
    LET d == << "0","1","2","3","4","5","6","7","8","9" >>
    IN  IF n < 10 THEN << d[n + 1] >>
        ELSE NumToChars(n \div 10) \o << d[(n % 10) + 1] >>

RECURSIVE Concat(_)
\* concatenation of a sequence of character sequences
Concat(parts) ==
    IF parts = <<>> THEN <<>> ELSE Head(parts) \o Concat(Tail(parts))

RECURSIVE join_Reversed(_, _)
\* a join that lists the elements from the last to the first
join_Reversed(arr, sep) ==
    IF arr = <<>> THEN <<>>
    ELSE IF Len(arr) = 1 THEN arr[1]
    ELSE join_Reversed(Tail(arr), sep) \o sep \o arr[1]

RECURSIVE join(_, _)
\* Array.prototype.join
join(arr, sep) ==
    IF arr = <<>> THEN <<>>
    ELSE IF Len(arr) = 1 THEN arr[1]
    ELSE arr[1] \o sep \o join(Tail(arr), sep)

(************************ regular expressions ******************************)

\* \b at the gap before position i of s
WordBoundary(s, i) ==
    LET before == i > 1 /\ i - 1 <= Len(s) /\ IsWordChar(s[i - 1])
        after  == i >= 1 /\ i <= Len(s) /\ IsWordChar(s[i])
    IN  before # after

\* a literal alternative w of a case-insensitive regex matches low (already
\* lower-cased) at position i; an unescaped dot matches any character but \n
LiteralAt(low, w, i) ==
    /\ i + Len(w) - 1 <= Len(low)
    /\ w[1] = "." \/ low[i] = w[1]
    /\ IF \E j \in 1..Len(w) : w[j] = "."
       THEN \A j \in 1..Len(w) :
               IF w[j] = "." THEN low[i + j - 1] # "\n"
               ELSE low[i + j - 1] = w[j]
       ELSE SubSeq(low, i, i + Len(w) - 1) = w

\* length of the match of /\b(?:w1|w2|...)\b/i at position i (0: no match);
\* alternatives are tried in order and the first that lets \b follow wins
MatchLenAt(low, words, i) ==
    IF ~WordBoundary(low, i) THEN 0
    ELSE LET ok == { k \in DOMAIN words :
                        /\ LiteralAt(low, words[k], i)
                        /\ WordBoundary(low, i + Len(words[k])) }
         IN  IF ok = {} THEN 0 ELSE Len(words[Min(ok)])

RECURSIVE RemoveWordsFrom(_, _, _)
\* s from position i on, without the matches; lens[j] is the length of the
\* match at j, and each match resumes the scan behind itself
RemoveWordsFrom(s, lens, i) ==
    LET starts == { j \in i..Len(s) : lens[j] > 0 }
        j == Min(starts)
    IN  IF starts = {} THEN SubSeq(s, i, Len(s))
        ELSE SubSeq(s, i, j - 1) \o RemoveWordsFrom(s, lens, j + lens[j])

\* s.replace(new RegExp(`\\b(?:${words.join('|')})\\b`, 'gi'), '')
RemoveWords(s, words) ==
    LET low == toLowerCase(s)
    IN  RemoveWordsFrom(s, [j \in 1..Len(s) |-> MatchLenAt(low, words, j)], 1)

\* s.match(new RegExp(`\\b(?:${words.join('|')})\\b`, 'gi')) is not null
MatchesWords(s, words) ==
    LET low == toLowerCase(s)
    IN  \E i \in 1..Len(s) : MatchLenAt(low, words, i) > 0

RECURSIVE CollapseFrom(_, _, _)
\* s from position i on, every maximal run of at least minRun \s characters
\* replaced by one space
CollapseFrom(s, i, minRun) ==
    LET spaces == { j \in i..Len(s) : IsSpaceChar(s[j]) }
        from   == Min(spaces)
        stop   == { j \in from..Len(s) : ~IsSpaceChar(s[j]) }
        end    == IF stop = {} THEN Len(s) + 1 ELSE Min(stop)
    IN  IF spaces = {} THEN SubSeq(s, i, Len(s))
        ELSE SubSeq(s, i, from - 1)
             \o (IF end - from >= minRun THEN << " " >> ELSE SubSeq(s, from, end - 1))
             \o CollapseFrom(s, end, minRun)

\* s.replace(/\s+/g, ' ')
CollapseSpaces(s) == CollapseFrom(s, 1, 1)

\* s.replace(/\s{2,}/g, ' ')
CollapseDoubleSpaces(s) == CollapseFrom(s, 1, 2)

IsWordOrSpace(c) == IsWordChar(c) \/ IsSpaceChar(c)

\* s.replace(/[^\w\s]/gi, '')
RemoveSpecial(s) == SelectSeq(s, IsWordOrSpace)

\* the length of a PIN code: \d{6}
PinLen == 6

AllDigits(s) == \A i \in 1..Len(s) : s[i] \in DigitChars

\* positions where /\b\d{6}\b/ matches s
PinMatches(s) ==
    { i \in 1..(Len(s) - PinLen + 1) :
        /\ AllDigits(SubSeq(s, i, i + PinLen - 1))
        /\ WordBoundary(s, i)
        /\ WordBoundary(s, i + PinLen) }

\* s.match(/^\d{6}$/) is not null
IsExactPin(s) == Len(s) = PinLen /\ AllDigits(s)

(**************************** JavaScript values ****************************)

Undefined == [t |-> "undefined", v |-> <<>>]

Null == [t |-> "null", v |-> <<>>]

Str(s) == [t |-> "string", v |-> s]

Num(digits) == [t |-> "number", v |-> digits]

IsString(x) == x.t = "string"

\* ToBoolean
Truthy(x) ==
    \/ x.t = "string" /\ x.v # <<>>
    \/ x.t = "number" /\ x.v # << "0" >>

\* String(x), and the printing of x in a template literal
String(x) ==
    CASE x.t = "undefined" -> << "u","n","d","e","f","i","n","e","d" >>
      [] x.t = "null"      -> << "n","u","l","l" >>
      [] OTHER             -> x.v

\* a || b
Or(a, b) == IF Truthy(a) THEN a ELSE b

\* a === b
StrictEq(a, b) == a = b

(***************************** word lists *********************************)

testingKeywords ==
    << <<"t","e","s","t">>, <<"t","e","s","t","i","n","g">>, <<"a","s","d","f">>,
       <<"q","w","e","r">>, <<"z","x","c","v">>, <<"r","a","n","d","o","m">>,
       <<"g","j","n","j">>, <<"f","g","j","n","j">> >>

\* the entries of coreMeaningfulWords that both revisions list, in order
coreMeaningfulWordsShared ==
    << <<"d","d","a","d","u">>, <<"d","d","a","d","u">>, <<"a","i">>,
       <<"a","d","d">>, <<"a","d","d","-">>, <<"r","a","w">>,
       <<"d","u","m","p","i","n","g">>, <<"g","r","a","n","d">>, <<"d","u","m","p","i","n","g"," ","g","r","a","n","d">>,
       <<"c","h","d">>, <<"c","h","d","-">>, <<"c","h","a","n","d","i","g","a","r","h">>,
       <<"c","h","a","n","d","i","g","a","r","h","-">>, <<"c","h","a","n","d","i","g","a","r","h">>, <<"w","e","s","t">>,
       <<"s","e","c","t","o","r">>, <<"s","e","c","t","o","r","-">>, <<"h","o","u","s","e">>,
       <<"n","o">>, <<"n","o","#">>, <<"h","o","u","s","e"," ","n","o">>,
       <<"h","o","u","s","e"," ","n","o","#">>, <<"f","l","o","o","r">>, <<"f","i","r","s","t">>,
       <<"f","i","r","s","t"," ","f","l","o","o","r">>, <<"m","a","j","r","a">>, <<"c","o","l","o","n","y">>,
       <<"d","a","d","u">>, <<"d","a","d","u"," ","m","a","j","r","a">>, <<"s","h","o","p">>,
       <<"w","i","n","e">>, <<"w","i","n","e"," ","s","h","o","p">>, <<"h","o","u","s","e">>,
       <<"n","u","m","b","e","r">>, <<"t","q">>, <<"j","o","b">>,
       <<"d","i","s","t">> >>

\* the entries the first revision appends
coreMeaningfulWordsFirst ==
    << <<"s","i","r","f">>, <<"a","a","t","a">>, <<"g","p">>,
       <<"g","r","a","m"," ","p","a","n","c","h","a","y","a","t">> >>

\* the entry the second revision appends
coreMeaningfulWordsSecond ==
    << <<"v","p","o">> >>

\* meaningfulWords = [...coreMeaningfulWords, ...testingKeywords]; the words
\* of meaninglessRegex, in the order of its alternatives
meaningfulWords(revision) ==
    coreMeaningfulWordsShared
    \o (IF revision = 1 THEN coreMeaningfulWordsFirst ELSE coreMeaningfulWordsSecond)
    \o testingKeywords

nameCleanupWords ==
    << <<"m","r">>, <<"m","r","s">>, <<"m","s">>,
       <<"d","r">>, <<"p","r","o","f">>, <<"e","n","g","r">>,
       <<"p","v","t">>, <<"l","t","d">>, <<"p","r","i","v","a","t","e">>,
       <<"l","i","m","i","t","e","d">>, <<"c","o">>, <<"c","o","m","p","a","n","y">>,
       <<"p","r","o","p","r","i","e","t","o","r">>, <<"p","r","o","p">>, <<"f","i","r","m">>,
       <<"g","r","o","u","p">>, <<"t","h","e">>, <<"s","/","o">>,
       <<"d","/","o">>, <<"c","/","o">>, <<"s","o","n"," ","o","f">>,
       <<"d","a","u","g","h","t","e","r"," ","o","f">>, <<"s","h","r","i">>, <<"s","m","t">>,
       <<"m","d">>, <<"s","h",".">>, <<"m","/","s">>,
       <<"k","a","r","t","a">>, <<"h","u","f">> >>

directionalKeywords ==
    << <<"n","e","a","r">>, <<"o","p","p","o","s","i","t","e">>, <<"b","a","c","k"," ","s","i","d","e">>,
       <<"f","r","o","n","t"," ","s","i","d","e">>, <<"b","e","h","i","n","d">>, <<"o","p","p">> >>

leakageKeywords ==
    << <<"r","o","a","d">>, <<"s","t","r","e","e","t">>, <<"l","a","n","e">>,
       <<"c","o","l","o","n","y">>, <<"a","p","a","r","t","m","e","n","t">>, <<"b","l","d","g">>,
       <<"a","r","e","a">>, <<"n","a","g","a","r">>, <<"v","i","h","a","r">>,
       <<"m","a","r","g">>, <<"v","p","o">>, <<"p","o">>,
       <<"t","q">> >>

(************************* utilities of the module *************************)

\* the words after toLowerCase().split(' ').map(capitalize).join(' '): the
\* first character and every character that follows a space are upper-cased
TitleCase(s) ==
    LET low == toLowerCase(s)
    IN  [i \in 1..Len(low) |->
            IF i = 1 \/ low[i - 1] = " " THEN ToUpperChar(low[i]) ELSE low[i]]

\* cleanCustomerName (first revision)
cleanCustomerName(name) ==
    IF ~Truthy(name) THEN Null
    ELSE LET cleaned ==
                 trim(CollapseSpaces(
                     RemoveWords(RemoveSpecial(String(name)), nameCleanupWords)))
             titled == TitleCase(cleaned)
         IN  IF titled = <<>> THEN Null ELSE Str(titled)

\* the second revision cleans the name in line; it calls customerName.replace
\* and so throws a TypeError unless customerName is a string
inlineCleanNameThrows(name) == ~IsString(name)

inlineCleanName(name) ==
    LET cleaned == trim(CollapseSpaces(RemoveSpecial(name.v)))
    IN  IF cleaned = <<>> THEN Null ELSE Str(cleaned)

\* a variant of extractPin that takes the first six digits in a row, whatever
\* stands around them
extractPin_Loose(address) ==
    LET s == String(address)
        m == { i \in 1..(Len(s) - PinLen + 1) : AllDigits(SubSeq(s, i, i + PinLen - 1)) }
    IN  IF m = {} THEN Null ELSE Str(SubSeq(s, Min(m), Min(m) + PinLen - 1))

\* extractPin: the first match of /\b\d{6}\b/ in String(address), or null
extractPin(address) ==
    LET s == String(address)
        m == PinMatches(s)
    IN  IF m = {} THEN Null ELSE Str(SubSeq(s, Min(m), Min(m) + PinLen - 1))

(*********************** the postal reference service **********************)

\* the strings the model works with: the PINs, place names, addresses and
\* names of its requests, the Oracle's field values and replies, and the
\* quality tiers and defaults of the handler
Txt ==
    \* "411001"
    [ Pin1 |-> <<"4","1","1","0","0","1">>,
    \* "500081"
      Pin2 |-> <<"5","0","0","0","8","1">>,
    \* an Oracle PIN with text around six digits: "PIN 500081"
      PinText |-> <<"P","I","N"," ","5","0","0","0","8","1">>,
    \* "5000"
      PinShort |-> <<"5","0","0","0">>,
    \* "Pune Rural"
      PuneRural |-> <<"P","u","n","e"," ","R","u","r","a","l">>,
    \* "Pune"
      Pune |-> <<"P","u","n","e">>,
    \* "Haveli"
      Haveli |-> <<"H","a","v","e","l","i">>,
    \* "Maharashtra"
      Maharashtra |-> <<"M","a","h","a","r","a","s","h","t","r","a">>,
    \* "Shivajinagar"
      Shivajinagar |-> <<"S","h","i","v","a","j","i","n","a","g","a","r">>,
    \* "Hitec City"
      Hitec |-> <<"H","i","t","e","c"," ","C","i","t","y">>,
    \* "Balanagar"
      Balanagar |-> <<"B","a","l","a","n","a","g","a","r">>,
    \* "Hyderabad"
      Hyderabad |-> <<"H","y","d","e","r","a","b","a","d">>,
    \* "Telangana"
      Telangana |-> <<"T","e","l","a","n","g","a","n","a">>,
    \* "P.O. Pune"
      POPune |-> <<"P",".","O","."," ","P","u","n","e">>,
    \* "Tehsil Haveli"
      TehsilHaveli |-> <<"T","e","h","s","i","l"," ","H","a","v","e","l","i">>,
    \* "P.O. Hitec City"
      POHitec |-> <<"P",".","O","."," ","H","i","t","e","c"," ","C","i","t","y">>,
    \* "Tehsil Balanagar"
      TehsilBalanagar |-> <<"T","e","h","s","i","l"," ","B","a","l","a","n","a","g","a","r">>,
    \* "12 MG Road, Pune"
      FormattedShort |-> <<"1","2"," ","M","G"," ","R","o","a","d",","," ","P","u","n","e">>,
    \* "Flat 12, MG Road, Near Apollo Hospital, Pune"
      FormattedLong |-> <<"F","l","a","t"," ","1","2",","," ","M","G"," ","R","o","a","d",","," ","N","e","a","r"," ","A","p","o","l","l","o"," ","H","o","s","p","i","t","a","l",","," ","P","u","n","e">>,
    \* "Apollo Hospital"
      Apollo |-> <<"A","p","o","l","l","o"," ","H","o","s","p","i","t","a","l">>,
    \* "  "
      Blank |-> <<" "," ">>,
    \* "xyz road"
      RemLeak |-> <<"x","y","z"," ","r","o","a","d">>,
    \* "raw job"
      RemRaw |-> <<"r","a","w"," ","j","o","b">>,
    \* "qq zz"
      RemJunk |-> <<"q","q"," ","z","z">>,
    \* "JSON parse failed"
      RemEcho |-> <<"J","S","O","N"," ","p","a","r","s","e"," ","f","a","i","l","e","d">>,
    \* "12"
      Twelve |-> <<"1","2">>,
    \* "MG Road"
      MGRoad |-> <<"M","G"," ","R","o","a","d">>,
    \* "Camp"
      Camp |-> <<"C","a","m","p">>,
    \* "City"
      City |-> <<"C","i","t","y">>,
    \* "Prime Location"
      Prime |-> <<"P","r","i","m","e"," ","L","o","c","a","t","i","o","n">>,
    \* "Unknown"
      Unknown |-> <<"U","n","k","n","o","w","n">>,
    \* "Very Good"
      VeryGood |-> <<"V","e","r","y"," ","G","o","o","d">>,
    \* "Good"
      Good |-> <<"G","o","o","d">>,
    \* "Medium"
      Medium |-> <<"M","e","d","i","u","m">>,
    \* "Bad"
      Bad |-> <<"B","a","d">>,
    \* "Very Bad"
      VeryBad |-> <<"V","e","r","y"," ","B","a","d">>,
    \* "5"
      Five |-> <<"5">>,
    \* "Sorry, I cannot help with that."
      TextSorry |-> <<"S","o","r","r","y",","," ","I"," ","c","a","n","n","o","t"," ","h","e","l","p"," ","w","i","t","h"," ","t","h","a","t",".">>,
    \* "Here is the JSON object that you asked me to produce: {"
      TextProseHead |-> <<"H","e","r","e"," ","i","s"," ","t","h","e"," ","J","S","O","N"," ","o","b","j","e","c","t"," ","t","h","a","t"," ","y","o","u"," ","a","s","k","e","d"," ","m","e"," ","t","o"," ","p","r","o","d","u","c","e",":"," ","{">>,
    \* "12 MG Road near Apollo Pune 411001"
      Addr1 |-> <<"1","2"," ","M","G"," ","R","o","a","d"," ","n","e","a","r"," ","A","p","o","l","l","o"," ","P","u","n","e"," ","4","1","1","0","0","1">>,
    \* "Dadu Majra Colony"
      Addr2 |-> <<"D","a","d","u"," ","M","a","j","r","a"," ","C","o","l","o","n","y">>,
    \* "Flat 5 OPP Park 4110011 Hyd"
      Addr3 |-> <<"F","l","a","t"," ","5"," ","O","P","P"," ","P","a","r","k"," ","4","1","1","0","0","1","1"," ","H","y","d">>,
    \* "Behind Mall Pune PIN:500081"
      Addr4 |-> <<"B","e","h","i","n","d"," ","M","a","l","l"," ","P","u","n","e"," ","P","I","N",":","5","0","0","0","8","1">>,
    \* "Shoppers Stop Pune 411001"
      Addr5 |-> <<"S","h","o","p","p","e","r","s"," ","S","t","o","p"," ","P","u","n","e"," ","4","1","1","0","0","1">>,
    \* "Mr. Asha Rao"
      Name1 |-> <<"M","r","."," ","A","s","h","a"," ","R","a","o">>,
    \* "Dr."
      Name2 |-> <<"D","r",".">> ]

\* the keys under which getIndiaPostData can be asked in the model: a property
\* key of pincodeCache is String(pin)
CacheKeys == { Txt.Pin1, Txt.Pin2, Txt.PinText }

\* an element of the PostOffice list of the service's answer
RawOffice(name, taluk, subDistrict, district, state) ==
    [Name |-> name, Taluk |-> taluk, SubDistrict |-> subDistrict,
     District |-> district, State |-> state]

\* what the service holds: two offices for 411001; for 500081 one office that
\* names its sub-district under SubDistrict and carries no State
Registry(key) ==
    IF key = Txt.Pin1
    THEN << RawOffice(Str(Txt.Pune), Str(Txt.Haveli), Undefined, Str(Txt.Pune), Str(Txt.Maharashtra)),
            RawOffice(Str(Txt.Shivajinagar), Str(Txt.Haveli), Undefined, Str(Txt.Pune),
                      Str(Txt.Maharashtra)) >>
    ELSE << RawOffice(Str(Txt.Hitec), Undefined, Str(Txt.Balanagar), Str(Txt.Hyderabad),
                      Undefined) >>

\* one answer of fetch(INDIA_POST_API + pin): net = FALSE when fetch rejects;
\* body is "invalid" (not JSON), "null", "empty" ([]) or "element" (data[0]
\* exists, with Status and PostOffice as given)
PostalAnswer(net, status, body, st, hasList, list) ==
    [net |-> net, status |-> status, body |-> body, Status |-> st,
     hasList |-> hasList, list |-> list]

PostalAnswers(key) ==
    { PostalAnswer(FALSE, 0, "invalid", "Error", FALSE, <<>>),
      PostalAnswer(TRUE, 200, "invalid", "Error", FALSE, <<>>),
      PostalAnswer(TRUE, 200, "null", "Error", FALSE, <<>>),
      PostalAnswer(TRUE, 200, "empty", "Error", FALSE, <<>>),
      PostalAnswer(TRUE, 503, "element", "Success", TRUE, Registry(key)),
      PostalAnswer(TRUE, 200, "element", "Error", FALSE, <<>>),
      PostalAnswer(TRUE, 200, "element", "Success", FALSE, <<>>),
      PostalAnswer(TRUE, 200, "element", "Success", TRUE, <<>>),
      PostalAnswer(TRUE, 200, "element", "Success", TRUE, Registry(key)) }

\* { PinStatus: 'Error' }
PinError == [PinStatus |-> "Error", hasList |-> FALSE, PostOfficeList |-> <<>>]

\* { PinStatus: 'Success', PostOfficeList: list }
PinSuccess(list) == [PinStatus |-> "Success", hasList |-> TRUE, PostOfficeList |-> list]

\* pincodeCache[pin] is undefined
NoEntry == [PinStatus |-> "none", hasList |-> FALSE, PostOfficeList |-> <<>>]

\* po => ({ Name: po.Name || '', Taluk: po.Taluk || po.SubDistrict || '', ... })
mapPostOffice(po) ==
    [Name     |-> Or(po.Name, Str(<<>>)),
     Taluk    |-> Or(Or(po.Taluk, po.SubDistrict), Str(<<>>)),
     District |-> Or(po.District, Str(<<>>)),
     State    |-> Or(po.State, Str(<<>>))]

\* the body of the try block of getIndiaPostData throws: fetch rejects,
\* response.json() rejects, data is null, postData is undefined when its
\* Status is read, or PostOffice is not an array when it is mapped
lookupThrows(a) ==
    \/ ~a.net
    \/ a.body \in {"invalid", "null"}
    \/ a.status = 200 /\ a.body = "empty"
    \/ a.status = 200 /\ a.body = "element" /\ a.Status = "Success" /\ ~a.hasList

\* the value getIndiaPostData computes from the service's answer
postalDataOf(a) ==
    IF lookupThrows(a) THEN PinError
    ELSE IF a.status # 200 \/ a.Status # "Success" THEN PinError
    ELSE PinSuccess([i \in 1..Len(a.list) |-> mapPostOffice(a.list[i])])

\* a variant of getIndiaPostData that caches only successful lookups
getIndiaPostData_SuccessOnly(cache, pin, a) ==
    LET key == String(pin)
    IN  IF cache[key] # NoEntry
        THEN [ret |-> cache[key], cache |-> cache, fetched |-> FALSE]
        ELSE [ret |-> postalDataOf(a),
              cache |-> IF postalDataOf(a).PinStatus = "Success"
                        THEN [cache EXCEPT ![key] = postalDataOf(a)] ELSE cache,
              fetched |-> TRUE]

\* getIndiaPostData(pin) on cache `cache`, the service answering `a` if it is
\* asked: the value returned, the cache afterwards, whether fetch was called
getIndiaPostData(cache, pin, a) ==
    LET key == String(pin)
    IN  IF cache[key] # NoEntry
        THEN [ret |-> cache[key], cache |-> cache, fetched |-> FALSE]
        ELSE [ret |-> postalDataOf(a),
              cache |-> [cache EXCEPT ![key] = postalDataOf(a)],
              fetched |-> TRUE]

(************************ the text extraction Oracle ************************)

\* the keys of the Oracle's JSON object that the handler reads (P_O_ is
\* "P.O.", DIST_ is "DIST.", H_no_ is "H.no.", Flat_No_ is "Flat No.", and so
\* on), and DIST, which only the handler's fallback record sets.  A key the
\* object lacks reads as undefined.
NoFields ==
    [PIN |-> Undefined, FormattedAddress |-> Undefined, AddressQuality |-> Undefined,
     Landmark |-> Undefined, Remaining |-> Undefined, P_O_ |-> Undefined,
     Tehsil |-> Undefined, DIST_ |-> Undefined, DIST |-> Undefined, State |-> Undefined,
     LocationType |-> Undefined, LocationSuitability |-> Undefined,
     H_no_ |-> Undefined, Flat_No_ |-> Undefined, Plot_No_ |-> Undefined,
     Room_No_ |-> Undefined, Building_No_ |-> Undefined, Colony |-> Undefined,
     Street |-> Undefined, Locality |-> Undefined, Building_Name |-> Undefined]

\* a value JSON.parse returns: k is "null", "array", "string", "number" or
\* "object"; only an object has keys
JsonValue(k, f) == [k |-> k, f |-> f]

\* a complete answer of the Oracle for a good address
BaseFields ==
    [NoFields EXCEPT !.FormattedAddress = Str(Txt.FormattedLong),
                     !.AddressQuality = Str(Txt.Good),
                     !.Landmark = Str(Txt.Apollo), !.Remaining = Null,
                     !.LocationType = Str(Txt.City),
                     !.LocationSuitability = Str(Txt.Prime),
                     !.H_no_ = Str(Txt.Twelve), !.Colony = Str(Txt.Camp),
                     !.Street = Str(Txt.MGRoad)]

OracleDocs ==
    LET \* the objects the Oracle answers with in the model: the PIN and the
        \* geographic fields vary together, the quality with the premise number and
        \* the formatted address, the residual text with the landmark
        OracleObjects ==
            LET \* the PIN field: absent, null, the two PINs as strings, a PIN as a number,
                \* a PIN with text around it, too few digits
                OraclePins ==
                    { Undefined, Null, Str(Txt.Pin1), Str(Txt.Pin2), Num(Txt.Pin2), Str(Txt.PinText), Str(Txt.PinShort) }
                \* the P.O., Tehsil, DIST. and State fields: absent, those of 411001, the same
                \* with a district name of two words, others
                OracleGeos ==
                    { << Undefined, Undefined, Undefined, Undefined >>,
                      << Str(Txt.POPune), Str(Txt.TehsilHaveli), Str(Txt.Pune), Str(Txt.Maharashtra) >>,
                      << Str(Txt.POPune), Str(Txt.TehsilHaveli), Str(Txt.PuneRural), Str(Txt.Maharashtra) >>,
                      << Str(Txt.POHitec), Str(Txt.TehsilBalanagar), Str(Txt.Hyderabad), Str(Txt.Telangana) >> }
                OracleQualities ==
                    { Undefined, Str(Txt.VeryGood), Str(Txt.Good), Str(Txt.Medium), Str(Txt.Bad), Str(Txt.VeryBad) }
                OracleRemainings ==
                    { Null, Str(<<>>), Str(Txt.RemLeak), Str(Txt.RemRaw), Str(Txt.RemJunk), Str(Txt.RemEcho),
                      Num(Txt.Five) }
                OracleLandmarks == { Null, Str(Txt.Apollo), Str(Txt.Blank) }
            IN  { [BaseFields EXCEPT !.PIN = p, !.P_O_ = g[1], !.Tehsil = g[2],
                                     !.DIST_ = g[3], !.State = g[4]] :
                      p \in OraclePins, g \in OracleGeos }
                \cup
                { [NoFields EXCEPT !.AddressQuality = q, !.H_no_ = h, !.FormattedAddress = fa] :
                      q \in OracleQualities, h \in { Null, Str(Txt.Twelve) },
                      fa \in { Undefined, Str(Txt.FormattedShort), Str(Txt.FormattedLong) } }
                \cup
                { [BaseFields EXCEPT !.Remaining = r, !.Landmark = l] :
                      r \in OracleRemainings, l \in OracleLandmarks }
                \cup
                { [BaseFields EXCEPT !.H_no_ = Null, !.Flat_No_ = Str(Txt.Twelve),
                                     !.AddressQuality = Str(Txt.Medium)] }
    IN  { JsonValue(k, NoFields) : k \in {"null", "array", "string", "number"} }
        \cup { JsonValue("object", f) : f \in OracleObjects }

\* the text of a candidate: kind "plain" is a JSON document, "fenced" one
\* between ```json and ```, "prose" one after a sentence, "invalid" no JSON,
\* "empty" the empty string; text holds the characters of an "invalid" reply
\* or the sentence of a "prose" one
OracleText(kind, text, doc) == [kind |-> kind, text |-> text, doc |-> doc]

NoText == OracleText("empty", <<>>, JsonValue("null", NoFields))

OracleTexts ==
    { NoText,
      OracleText("invalid", Txt.TextSorry, JsonValue("null", NoFields)),
      OracleText("prose", Txt.TextProseHead, JsonValue("object", BaseFields)),
      OracleText("fenced", <<>>, JsonValue("object", BaseFields)) }
    \cup { OracleText("plain", <<>>, d) : d \in OracleDocs }

\* one answer of fetch(apiUrl, options): net = FALSE when fetch rejects; body is
\* "invalid" (response.json() rejects), "null" or "object"; candidates is
\* "missing", "empty", "malformed" (candidates[0] has no content), "notext"
\* (parts[0] has no text) or "text"
GeminiAnswer(net, status, body, hasMessage, candidates, text) ==
    [net |-> net, status |-> status, body |-> body, hasMessage |-> hasMessage,
     candidates |-> candidates, text |-> text]

GeminiAnswers ==
    LET GeminiFailures ==
            { GeminiAnswer(FALSE, 0, "invalid", FALSE, "missing", NoText),
              GeminiAnswer(TRUE, 200, "invalid", FALSE, "missing", NoText),
              GeminiAnswer(TRUE, 429, "object", TRUE, "missing", NoText),
              GeminiAnswer(TRUE, 500, "object", FALSE, "missing", NoText),
              GeminiAnswer(TRUE, 500, "null", FALSE, "missing", NoText),
              GeminiAnswer(TRUE, 200, "object", FALSE, "missing", NoText),
              GeminiAnswer(TRUE, 200, "object", FALSE, "empty", NoText),
              GeminiAnswer(TRUE, 200, "object", FALSE, "malformed", NoText),
              GeminiAnswer(TRUE, 200, "object", FALSE, "notext", NoText) }
    IN  GeminiFailures
        \cup { GeminiAnswer(TRUE, 200, "object", FALSE, "text", t) : t \in OracleTexts }

\* the try block of getGeminiResponse throws: fetch rejects, response.json()
\* rejects, result is null when result.error or result.candidates is read,
\* or candidates[0].content is undefined
geminiThrows(g) ==
    \/ ~g.net
    \/ g.body \in {"invalid", "null"}
    \/ g.status = 200 /\ g.candidates = "malformed"

\* getGeminiResponse: { text, error }; hasText is FALSE when text is null or
\* undefined, error is "" when it is null
getGeminiResponse(keySet, g) ==
    IF ~keySet
    THEN [hasText |-> FALSE, text |-> NoText,
          error |-> "Gemini API key not set in Vercel environment variables."]
    ELSE IF geminiThrows(g)
    THEN [hasText |-> FALSE, text |-> NoText,
          error |-> "Error during Gemini API call: " \o "request failed"]
    ELSE IF g.status # 200
    THEN [hasText |-> FALSE, text |-> NoText,
          error |-> "Gemini API Error: "
                    \o (IF g.hasMessage THEN "quota exceeded" ELSE "Unknown error.")]
    ELSE IF g.candidates \in {"missing", "empty"}
    THEN [hasText |-> FALSE, text |-> NoText,
          error |-> "Gemini API Error: No candidates found in response."]
    ELSE [hasText |-> g.candidates = "text", text |-> g.text, error |-> ""]

\* geminiResult before processAddress has resolved
NoResult == [hasText |-> FALSE, text |-> NoText, error |-> ""]

\* a variant of the failure test that looks at the error only
geminiFailed_ErrorOnly(r) == r.error # ""

\* geminiResult.error || !geminiResult.text
geminiFailed(r) == r.error # "" \/ ~r.hasText \/ r.text.kind = "empty"

\* geminiResult.error || "Gemini API failed to return text."
geminiErrorText(r) ==
    IF r.error # "" THEN r.error ELSE "Gemini API failed to return text."

\* JSON.parse(text.replace(/```json|```/g, '').trim()) throws a SyntaxError
parseThrows(text) == text.kind \notin {"plain", "fenced"}

(*************************** the remarks' texts *****************************)

\* the fixed parts of the remarks and of the checks on them
RemarkText ==
    \* "CRITICAL_ALERT: JSON parse failed. Raw Gemini Output: "
    [ JsonFail |-> <<"C","R","I","T","I","C","A","L","_","A","L","E","R","T",":"," ","J","S","O","N"," ","p","a","r","s","e"," ","f","a","i","l","e","d","."," ","R","a","w"," ","G","e","m","i","n","i"," ","O","u","t","p","u","t",":"," ">>,
    \* "..."
      Dots |-> <<".",".",".">>,
    \* "PIN ("
      PinOpen |-> <<"P","I","N"," ","(">>,
    \* ") was incorrect. Corrected to ("
      WasIncorrect |-> <<")"," ","w","a","s"," ","i","n","c","o","r","r","e","c","t","."," ","C","o","r","r","e","c","t","e","d"," ","t","o"," ","(">>,
    \* ") and verified."
      AndVerified |-> <<")"," ","a","n","d"," ","v","e","r","i","f","i","e","d",".">>,
    \* "Correct PIN ("
      CorrectPinOpen |-> <<"C","o","r","r","e","c","t"," ","P","I","N"," ","(">>,
    \* ") inferred by AI and verified."
      InferredVerified |-> <<")"," ","i","n","f","e","r","r","e","d"," ","b","y"," ","A","I"," ","a","n","d"," ","v","e","r","i","f","i","e","d",".">>,
    \* "CRITICAL_ALERT: AI-provided PIN ("
      AiPinOpen |-> <<"C","R","I","T","I","C","A","L","_","A","L","E","R","T",":"," ","A","I","-","p","r","o","v","i","d","e","d"," ","P","I","N"," ","(">>,
    \* ") not verified by API. Reverting to original PIN ("
      NotVerifiedReverting |-> <<")"," ","n","o","t"," ","v","e","r","i","f","i","e","d"," ","b","y"," ","A","P","I","."," ","R","e","v","e","r","t","i","n","g"," ","t","o"," ","o","r","i","g","i","n","a","l"," ","P","I","N"," ","(">>,
    \* ")."
      CloseDot |-> <<")",".">>,
    \* "N/A"
      NA |-> <<"N","/","A">>,
    \* ") verified successfully."
      VerifiedOk |-> <<")"," ","v","e","r","i","f","i","e","d"," ","s","u","c","c","e","s","s","f","u","l","l","y",".">>,
    \* "CRITICAL_ALERT: PIN ("
      AlertPinOpen |-> <<"C","R","I","T","I","C","A","L","_","A","L","E","R","T",":"," ","P","I","N"," ","(">>,
    \* ") found but not verified by India Post API."
      FoundNotVerified |-> <<")"," ","f","o","u","n","d"," ","b","u","t"," ","n","o","t"," ","v","e","r","i","f","i","e","d"," ","b","y"," ","I","n","d","i","a"," ","P","o","s","t"," ","A","P","I",".">>,
    \* "CRITICAL_ALERT: PIN not found after verification attempts. Manual check needed."
      PinNotFound |-> <<"C","R","I","T","I","C","A","L","_","A","L","E","R","T",":"," ","P","I","N"," ","n","o","t"," ","f","o","u","n","d"," ","a","f","t","e","r"," ","v","e","r","i","f","i","c","a","t","i","o","n"," ","a","t","t","e","m","p","t","s","."," ","M","a","n","u","a","l"," ","c","h","e","c","k"," ","n","e","e","d","e","d",".">>,
    \* "CRITICAL_ALERT: Formatted address is short ("
      ShortOpen |-> <<"C","R","I","T","I","C","A","L","_","A","L","E","R","T",":"," ","F","o","r","m","a","t","t","e","d"," ","a","d","d","r","e","s","s"," ","i","s"," ","s","h","o","r","t"," ","(">>,
    \* " chars). Manual verification recommended."
      ShortClose |-> <<" ","c","h","a","r","s",")","."," ","M","a","n","u","a","l"," ","v","e","r","i","f","i","c","a","t","i","o","n"," ","r","e","c","o","m","m","e","n","d","e","d",".">>,
    \* "Ambiguous Text: "
      Ambiguous |-> <<"A","m","b","i","g","u","o","u","s"," ","T","e","x","t",":"," ">>,
    \* "Address verified and formatted successfully."
      Default |-> <<"A","d","d","r","e","s","s"," ","v","e","r","i","f","i","e","d"," ","a","n","d"," ","f","o","r","m","a","t","t","e","d"," ","s","u","c","c","e","s","s","f","u","l","l","y",".">>,
    \* "Near"
      Near |-> <<"N","e","a","r">>,
    \* "; "
      Sep |-> <<";"," ">>,
    \* "CRITICAL_ALERT: Wrong PIN ("
      WrongPinOpen |-> <<"C","R","I","T","I","C","A","L","_","A","L","E","R","T",":"," ","W","r","o","n","g"," ","P","I","N"," ","(">>,
    \* ") corrected to ("
      CorrectedTo |-> <<")"," ","c","o","r","r","e","c","t","e","d"," ","t","o"," ","(">>,
    \* ") added by AI."
      AddedByAi |-> <<")"," ","a","d","d","e","d"," ","b","y"," ","A","I",".">>,
    \* ") not verified by API."
      NotVerified |-> <<")"," ","n","o","t"," ","v","e","r","i","f","i","e","d"," ","b","y"," ","A","P","I",".">>,
    \* "CRITICAL_ALERT: Semantic District Mismatch! PIN ("
      DistrictMismatchOpen |-> <<"C","R","I","T","I","C","A","L","_","A","L","E","R","T",":"," ","S","e","m","a","n","t","i","c"," ","D","i","s","t","r","i","c","t"," ","M","i","s","m","a","t","c","h","!"," ","P","I","N"," ","(">>,
    \* "CRITICAL_ALERT: Semantic State Mismatch! PIN ("
      StateMismatchOpen |-> <<"C","R","I","T","I","C","A","L","_","A","L","E","R","T",":"," ","S","e","m","a","n","t","i","c"," ","S","t","a","t","e"," ","M","i","s","m","a","t","c","h","!"," ","P","I","N"," ","(">>,
    \* ") is for '"
      IsFor |-> <<")"," ","i","s"," ","f","o","r"," ","'">>,
    \* "' but address mentions '"
      ButMentions |-> <<"'"," ","b","u","t"," ","a","d","d","r","e","s","s"," ","m","e","n","t","i","o","n","s"," ","'">>,
    \* "'."
      QuoteDot |-> <<"'",".">>,
    \* "Deep Check: Formatted address components do not strongly reference the official P.O. ("
      DeepCheckOpen |-> <<"D","e","e","p"," ","C","h","e","c","k",":"," ","F","o","r","m","a","t","t","e","d"," ","a","d","d","r","e","s","s"," ","c","o","m","p","o","n","e","n","t","s"," ","d","o"," ","n","o","t"," ","s","t","r","o","n","g","l","y"," ","r","e","f","e","r","e","n","c","e"," ","t","h","e"," ","o","f","f","i","c","i","a","l"," ","P",".","O","."," ","(">>,
    \* "CRITICAL_ALERT: No House/Flat/Plot Number found. Premise details are missing."
      Premise |-> <<"C","R","I","T","I","C","A","L","_","A","L","E","R","T",":"," ","N","o"," ","H","o","u","s","e","/","F","l","a","t","/","P","l","o","t"," ","N","u","m","b","e","r"," ","f","o","u","n","d","."," ","P","r","e","m","i","s","e"," ","d","e","t","a","i","l","s"," ","a","r","e"," ","m","i","s","s","i","n","g",".">>,
    \* "CRITICAL_ALERT: Component Leakage in Remaining Text. Unparsed address elements detected."
      Leakage |-> <<"C","R","I","T","I","C","A","L","_","A","L","E","R","T",":"," ","C","o","m","p","o","n","e","n","t"," ","L","e","a","k","a","g","e"," ","i","n"," ","R","e","m","a","i","n","i","n","g"," ","T","e","x","t","."," ","U","n","p","a","r","s","e","d"," ","a","d","d","r","e","s","s"," ","e","l","e","m","e","n","t","s"," ","d","e","t","e","c","t","e","d",".">>,
    \* "CRITICAL_ALERT: Low Component Density. Only "
      DensityOpen |-> <<"C","R","I","T","I","C","A","L","_","A","L","E","R","T",":"," ","L","o","w"," ","C","o","m","p","o","n","e","n","t"," ","D","e","n","s","i","t","y","."," ","O","n","l","y"," ">>,
    \* " specific components found (H.No., Street, Colony, Landmark, etc.)."
      DensityClose |-> <<" ","s","p","e","c","i","f","i","c"," ","c","o","m","p","o","n","e","n","t","s"," ","f","o","u","n","d"," ","(","H",".","N","o",".",","," ","S","t","r","e","e","t",","," ","C","o","l","o","n","y",","," ","L","a","n","d","m","a","r","k",","," ","e","t","c",".",")",".">>,
    \* "Remaining/Ambiguous Text: "
      Remaining |-> <<"R","e","m","a","i","n","i","n","g","/","A","m","b","i","g","u","o","u","s"," ","T","e","x","t",":"," ">>,
    \* "JSON parse failed"
      JsonParseFailed |-> <<"J","S","O","N"," ","p","a","r","s","e"," ","f","a","i","l","e","d">> ]

\* `CRITICAL_ALERT: JSON parse failed. Raw Gemini Output: ${text.substring(0, 50)}...`
note_JsonFail(text) == Concat(<< RemarkText.JsonFail, substring0(text, 50), RemarkText.Dots >>)

\* `PIN (${initialPin}) was incorrect. Corrected to (${finalPin}) and verified.`
note_PinCorrected(initialPin, finalPin) ==
    Concat(<< RemarkText.PinOpen, String(initialPin), RemarkText.WasIncorrect, String(finalPin),
              RemarkText.AndVerified >>)

\* `Correct PIN (${finalPin}) inferred by AI and verified.`
note_PinInferred(finalPin) ==
    Concat(<< RemarkText.CorrectPinOpen, String(finalPin), RemarkText.InferredVerified >>)

\* `CRITICAL_ALERT: AI-provided PIN (${finalPin}) not verified by API.
\*  Reverting to original PIN (${initialPin || 'N/A'}).`
note_AiPinReverted(finalPin, initialPin) ==
    Concat(<< RemarkText.AiPinOpen, String(finalPin), RemarkText.NotVerifiedReverting,
              String(Or(initialPin, Str(RemarkText.NA))), RemarkText.CloseDot >>)

\* `PIN (${initialPin}) verified successfully.`
note_PinVerified(initialPin) ==
    Concat(<< RemarkText.PinOpen, String(initialPin), RemarkText.VerifiedOk >>)

\* `CRITICAL_ALERT: PIN (${finalPin}) found but not verified by India Post API.`
note_PinUnverified(finalPin) ==
    Concat(<< RemarkText.AlertPinOpen, String(finalPin), RemarkText.FoundNotVerified >>)

\* `CRITICAL_ALERT: Formatted address is short (${n} chars). Manual verification recommended.`
note_Short(n) == Concat(<< RemarkText.ShortOpen, NumToChars(n), RemarkText.ShortClose >>)

\* `Ambiguous Text: ${finalRemaining}`
note_Ambiguous(rest) == RemarkText.Ambiguous \o rest

\* `CRITICAL_ALERT: Wrong PIN (${initialPin}) corrected to (${finalPin}).`
note_WrongPin(initialPin, finalPin) ==
    Concat(<< RemarkText.WrongPinOpen, String(initialPin), RemarkText.CorrectedTo, String(finalPin),
              RemarkText.CloseDot >>)

\* `Correct PIN (${finalPin}) added by AI.`
note_PinAdded(finalPin) ==
    Concat(<< RemarkText.CorrectPinOpen, String(finalPin), RemarkText.AddedByAi >>)

\* `CRITICAL_ALERT: AI-provided PIN (${finalPin}) not verified by API.`
note_AiPinFailed(finalPin) ==
    Concat(<< RemarkText.AiPinOpen, String(finalPin), RemarkText.NotVerified >>)

\* `CRITICAL_ALERT: Semantic District Mismatch! PIN (${finalPin}) is for
\*  '${apiDistrict}' but address mentions '${aiDistrict}'.`
note_DistrictMismatch(finalPin, apiDistrict, aiDistrict) ==
    Concat(<< RemarkText.DistrictMismatchOpen, String(finalPin), RemarkText.IsFor, apiDistrict,
              RemarkText.ButMentions, aiDistrict, RemarkText.QuoteDot >>)

\* `CRITICAL_ALERT: Semantic State Mismatch! PIN (${finalPin}) is for
\*  '${apiState}' but address mentions '${aiState}'.`
note_StateMismatch(finalPin, apiState, aiState) ==
    Concat(<< RemarkText.StateMismatchOpen, String(finalPin), RemarkText.IsFor, apiState,
              RemarkText.ButMentions, aiState, RemarkText.QuoteDot >>)

\* `Deep Check: Formatted address components do not strongly reference the
\*  official P.O. (${primaryPostOffice.Name}).`
note_DeepCheck(name) == Concat(<< RemarkText.DeepCheckOpen, name, RemarkText.CloseDot >>)

\* `CRITICAL_ALERT: Low Component Density. Only ${n} specific components found (...).`
note_Density(n) == Concat(<< RemarkText.DensityOpen, NumToChars(n), RemarkText.DensityClose >>)

\* `Remaining/Ambiguous Text: ${parsedData.Remaining.trim()}`
note_Remaining(rest) == RemarkText.Remaining \o rest

(************************* the handler's pure steps *************************)

\* {} : every property reads as undefined
EmptyOffice ==
    [def |-> TRUE, Name |-> Undefined, Taluk |-> Undefined,
     District |-> Undefined, State |-> Undefined]

\* undefined: reading a property of it throws a TypeError
UndefinedOffice == [EmptyOffice EXCEPT !.def = FALSE]

OfficeObject(po) ==
    [def |-> TRUE, Name |-> po.Name, Taluk |-> po.Taluk,
     District |-> po.District, State |-> po.State]

\* postalData.PostOfficeList ? postalData.PostOfficeList[0] : {}
primaryOfInitial(postalData) ==
    IF ~postalData.hasList THEN EmptyOffice
    ELSE IF postalData.PostOfficeList = <<>> THEN UndefinedOffice
    ELSE OfficeObject(postalData.PostOfficeList[1])

\* a variant of the selection that takes the last office of the list
primaryOfVerified_Last(postalData) ==
    IF postalData.PostOfficeList = <<>> THEN EmptyOffice
    ELSE OfficeObject(postalData.PostOfficeList[Len(postalData.PostOfficeList)])

\* postalData.PostOfficeList[0] || {}
primaryOfVerified(postalData) ==
    IF postalData.PostOfficeList = <<>> THEN EmptyOffice
    ELSE OfficeObject(postalData.PostOfficeList[1])

\* address.replace(meaninglessRegex, '').trim()
stripAddress(revision, address) ==
    trim(RemoveWords(address, meaningfulWords(revision)))

\* the record the handler substitutes when JSON.parse throws
fallbackData(revision, address, initialPin, firstRemark) ==
    [NoFields EXCEPT !.FormattedAddress = Str(stripAddress(revision, address)),
                     !.Landmark = Str(<<>>), !.State = Str(<<>>), !.DIST = Str(<<>>),
                     !.PIN = initialPin, !.AddressQuality = Str(Txt.VeryBad),
                     !.Remaining = Str(firstRemark)]

\* String(parsedData.PIN).match(/^\d{6}$/) in the first revision,
\* String(parsedData.PIN).match(/\b\d{6}\b/) in the second
pinFieldMatches(revision, pin) ==
    IF revision = 1 THEN IsExactPin(String(pin)) ELSE PinMatches(String(pin)) # {}

\* a variant of the choice that always keeps the PIN of the raw text
finalPinOf_Initial(revision, pin, initialPin) == initialPin

\* let finalPin = ... ? parsedData.PIN : initialPin
finalPinOf(revision, pin, initialPin) ==
    IF pinFieldMatches(revision, pin) THEN pin ELSE initialPin

\* the condition under which the handler awaits getIndiaPostData(finalPin)
reverifies(revision, finalPin, initialPin, postalData) ==
    IF revision = 1
    THEN Truthy(finalPin) /\ ~StrictEq(finalPin, initialPin)
    ELSE /\ Truthy(finalPin)
         /\ \/ postalData.PinStatus # "Success"
            \/ Truthy(initialPin) /\ ~StrictEq(finalPin, initialPin)

\* a variant of the guarded push that never adds the note
pushIf_Never(cond, remarks, note) == remarks

\* if (cond) remarks.push(note)
pushIf(cond, remarks, note) == IF cond THEN Append(remarks, note) ELSE remarks

\* if (remarks.length === 0) remarks.push('Address verified and formatted
\* successfully.')
defaultNote(remarks) == pushIf(remarks = <<>>, remarks, RemarkText.Default)

\* a variant of the branch that keeps the Oracle's PIN whatever the second
\* lookup returned
afterReverify_Keeps(revision, L, aiPostalData) ==
    IF aiPostalData.PinStatus = "Success"
    THEN [L EXCEPT !.postalData = aiPostalData,
                   !.primaryPostOffice = primaryOfVerified(aiPostalData)]
    ELSE [L EXCEPT !.remarks = Append(@, IF revision = 1
                                         THEN note_AiPinReverted(L.finalPin, L.initialPin)
                                         ELSE note_AiPinFailed(L.finalPin))]

\* the branch taken after the second lookup returned aiPostalData: the
\* locals finalPin, postalData, primaryPostOffice and remarks afterwards
afterReverify(revision, L, aiPostalData) ==
    IF aiPostalData.PinStatus = "Success"
    THEN [L EXCEPT
            !.postalData = aiPostalData,
            !.primaryPostOffice = primaryOfVerified(aiPostalData),
            !.remarks =
                IF revision = 1
                THEN Append(@, IF Truthy(L.initialPin)
                               THEN note_PinCorrected(L.initialPin, L.finalPin)
                               ELSE note_PinInferred(L.finalPin))
                ELSE IF Truthy(L.initialPin) /\ ~StrictEq(L.initialPin, L.finalPin)
                THEN Append(@, note_WrongPin(L.initialPin, L.finalPin))
                ELSE IF ~Truthy(L.initialPin)
                THEN Append(@, note_PinAdded(L.finalPin))
                ELSE @]
    ELSE [L EXCEPT
            !.finalPin = L.initialPin,
            !.remarks = Append(@, IF revision = 1
                                  THEN note_AiPinReverted(L.finalPin, L.initialPin)
                                  ELSE note_AiPinFailed(L.finalPin))]

\* a variant of these branches that pushes no remark and leaves finalPin
withoutReverify_Quiet(revision, L) == L

\* the branches of the PIN logic that make no second lookup
withoutReverify(revision, L) ==
    IF revision = 1
    THEN [L EXCEPT !.remarks =
            IF Truthy(L.initialPin) /\ L.postalData.PinStatus = "Success"
            THEN Append(@, note_PinVerified(L.initialPin))
            ELSE IF Truthy(L.finalPin) /\ L.postalData.PinStatus # "Success"
            THEN Append(@, note_PinUnverified(L.finalPin))
            ELSE @]
    ELSE IF Truthy(L.finalPin)
    THEN [L EXCEPT !.remarks =
            IF Truthy(L.initialPin) /\ L.postalData.PinStatus = "Success"
            THEN Append(@, note_PinVerified(L.initialPin))
            ELSE @]
    ELSE [L EXCEPT !.remarks = Append(@, RemarkText.PinNotFound),
                   !.finalPin = Or(L.initialPin, Null)]

\* a variant that leaves out the last push of the PIN logic
pinNotFoundCheck_Skip(revision, L) == L

\* if (!finalPin) remarks.push("CRITICAL_ALERT: PIN not found ...") of the
\* first revision, which follows both branches
pinNotFoundCheck(revision, L) ==
    IF revision = 1
    THEN [L EXCEPT !.remarks = pushIf(~Truthy(L.finalPin), @, RemarkText.PinNotFound)]
    ELSE L

\* the landmark with its directional prefix
finalLandmarkOf(address, landmark) ==
    LET value == trim(String(Or(landmark, Str(<<>>))))
        low   == toLowerCase(address)
        found == { k \in DOMAIN directionalKeywords :
                      includes(low, directionalKeywords[k]) }
        word  == directionalKeywords[Min(found)]
        at    == { i \in 1..Len(low) :
                      /\ WordBoundary(low, i)
                      /\ LiteralAt(low, word, i)
                      /\ WordBoundary(low, i + Len(word)) }
        orig  == IF at = {} THEN word
                 ELSE SubSeq(address, Min(at), Min(at) + Len(word) - 1)
    IN  IF value = <<>> THEN <<>>
        ELSE IF found = {} THEN RemarkText.Near \o << " " >> \o value
        ELSE << ToUpperChar(orig[1]) >> \o Tail(orig) \o << " " >> \o value

(************************** the handler's responses *************************)

\* the fields of a status "Success" body; an Error body has none of them
NoRecord ==
    [customerRawName |-> Undefined, customerCleanName |-> Undefined,
     addressLine1 |-> Undefined, landmark |-> Undefined, postOffice |-> Undefined,
     tehsil |-> Undefined, district |-> Undefined, state |-> Undefined,
     pin |-> Undefined, addressQuality |-> Undefined, locationType |-> Undefined,
     locationSuitability |-> Undefined, remarks |-> Undefined]

\* no response has been sent
NoResponse == [http |-> 0, status |-> "none", error |-> "", record |-> NoRecord]

\* res.status(http).json({ status: "Error", error })
ErrorResponse(http, error) ==
    [http |-> http, status |-> "Error", error |-> error, record |-> NoRecord]

\* res.status(200).end()
EndResponse == [http |-> 200, status |-> "ended", error |-> "", record |-> NoRecord]

\* res.status(200).json(finalResponse)
SuccessResponse(record) ==
    [http |-> 200, status |-> "Success", error |-> "", record |-> record]

\* a handler whose promise rejects: no response is sent
caught_Missing(message) ==
    [http |-> 0, status |-> "none", error |-> message, record |-> NoRecord]

\* catch (e) { return res.status(500).json({ status: "Error",
\*             error: `Internal Server Error: ${e.message}` }) }
caught(message) == ErrorResponse(500, "Internal Server Error: " \o message)

\* const finalResponse = { status: "Success", ... }
finalResponse(revision, L, landmark, remarks) ==
    LET f  == L.parsedData
        po == L.primaryPostOffice
    IN  [customerRawName     |-> L.customerName,
         customerCleanName   |-> L.cleanedName,
         addressLine1        |-> Or(Or(f.FormattedAddress,
                                       Str(stripAddress(revision, L.address.v))),
                                    Str(<<>>)),
         landmark            |-> Str(landmark),
         postOffice          |-> Or(Or(po.Name, f.P_O_), Str(<<>>)),
         tehsil              |-> Or(Or(po.Taluk, f.Tehsil), Str(<<>>)),
         district            |-> Or(Or(po.District, f.DIST_), Str(<<>>)),
         state               |-> Or(Or(po.State, f.State), Str(<<>>)),
         pin                 |-> L.finalPin,
         addressQuality      |-> Or(f.AddressQuality, Str(Txt.Medium)),
         locationType        |-> Or(f.LocationType, Str(Txt.Unknown)),
         locationSuitability |-> Or(f.LocationSuitability, Str(Txt.Unknown)),
         remarks             |-> Str(trim(join(remarks, RemarkText.Sep)))]

\* AddressQuality !== 'Very Good' && AddressQuality !== 'Good'
notTopTier(quality) == quality # Str(Txt.VeryGood) /\ quality # Str(Txt.Good)

\* the first revision from the short-address check to the response
finishFirst(L) ==
    LET f == L.parsedData
        r1 == pushIf(/\ Truthy(f.FormattedAddress)
                     /\ Len(f.FormattedAddress.v) < 35
                     /\ notTopTier(f.AddressQuality),
                     L.remarks, note_Short(Len(f.FormattedAddress.v)))
        finalRemaining ==
            CollapseDoubleSpaces(
                trim(RemoveWords(String(Or(f.Remaining, Str(<<>>))), meaningfulWords(1))))
        r2 == pushIf(finalRemaining # <<>>, r1, note_Ambiguous(finalRemaining))
        r3 == defaultNote(r2)
    IN  IF ~IsString(L.address)
        THEN caught("address.toLowerCase is not a function")
        ELSE IF ~IsString(Or(f.Remaining, Str(<<>>)))
        THEN caught("finalRemaining.replace is not a function")
        ELSE IF ~L.primaryPostOffice.def
        THEN caught("Cannot read properties of undefined (reading 'Name')")
        ELSE SuccessResponse(
                 finalResponse(1, L, finalLandmarkOf(L.address.v, f.Landmark), r3))

\* [...].filter(c => c && String(c).trim() !== '').length
countComponents(values) ==
    Cardinality({ i \in DOMAIN values :
                     Truthy(values[i]) /\ trim(String(values[i])) # <<>> })

\* the remarks of the second revision's checks 4.1 to 4.5, appended in order
deepChecks(L) ==
    LET f  == L.parsedData
        po == L.primaryPostOffice
        apiState    == IF Truthy(po.State) THEN toLowerCase(po.State.v) ELSE <<>>
        apiDistrict == IF Truthy(po.District) THEN toLowerCase(po.District.v) ELSE <<>>
        rawAddressLower == toLowerCase(L.address.v)
        verified == L.postalData.PinStatus = "Success"
        aiState == IF Truthy(f.State) THEN toLowerCase(f.State.v) ELSE <<>>
        aiDistrict == IF Truthy(f.DIST_) THEN String(Or(f.DIST_, f.Tehsil)) ELSE <<>>
        aiDistrictLower == toLowerCase(aiDistrict)
        r1 == pushIf(/\ verified
                     /\ apiDistrict # <<>> /\ aiDistrictLower # <<>>
                     /\ apiDistrict # aiDistrictLower
                     /\ includes(rawAddressLower, splitFirst(aiDistrictLower)),
                     L.remarks,
                     note_DistrictMismatch(L.finalPin, apiDistrict, aiDistrict))
        r2 == pushIf(/\ verified
                     /\ apiState # <<>> /\ aiState # <<>> /\ apiState # aiState
                     /\ includes(rawAddressLower, splitFirst(aiState)),
                     r1, note_StateMismatch(L.finalPin, apiState, aiState))
        formattedAddressLower ==
            toLowerCase(String(Or(f.FormattedAddress, Str(<<>>))))
        r3 == pushIf(/\ verified /\ Truthy(po.Name)
                     /\ Len(formattedAddressLower) > 20
                     /\ ~includes(formattedAddressLower, apiDistrict)
                     /\ ~includes(formattedAddressLower, apiState),
                     r2, note_DeepCheck(String(po.Name)))
        hasPremise ==
            \/ Truthy(f.H_no_) \/ Truthy(f.Flat_No_) \/ Truthy(f.Plot_No_)
            \/ Truthy(f.Room_No_) \/ Truthy(f.Building_No_)
        isLowQuality ==
            f.AddressQuality \in { Str(Txt.Bad), Str(Txt.VeryBad), Str(Txt.Medium) }
        r4 == pushIf(~hasPremise /\ isLowQuality, r3, RemarkText.Premise)
        remainingLower == toLowerCase(String(Or(f.Remaining, Str(<<>>))))
        r5 == pushIf(MatchesWords(remainingLower, leakageKeywords), r4, RemarkText.Leakage)
        meaningfulComponents ==
            countComponents(<< f.H_no_, f.Flat_No_, f.Plot_No_, f.Colony, f.Street,
                               f.Locality, f.Building_Name, f.Landmark >>)
        totalAddressLength ==
            Len(String(Or(f.FormattedAddress, Str(<<>>))))
            + Len(String(Or(f.Landmark, Str(<<>>))))
        r6 == pushIf(totalAddressLength < 35 /\ notTopTier(f.AddressQuality),
                     r5, note_Short(totalAddressLength))
        r7 == pushIf(totalAddressLength > 20 /\ meaningfulComponents < 3,
                     r6, note_Density(meaningfulComponents))
    IN  r7

\* the second revision from the deep checks to the response
finishSecond(L) ==
    LET f == L.parsedData
        r7 == deepChecks(L)
        r8 == IF /\ Truthy(f.Remaining)
                 /\ trim(f.Remaining.v) # <<>>
                 /\ ~includes(f.Remaining.v, RemarkText.JsonParseFailed)
              THEN Append(r7, note_Remaining(trim(f.Remaining.v)))
              ELSE defaultNote(r7)
    IN  IF ~L.primaryPostOffice.def
        THEN caught("Cannot read properties of undefined (reading 'State')")
        ELSE IF ~IsString(L.address)
        THEN caught("address.toLowerCase is not a function")
        ELSE IF ~IsString(Or(f.Remaining, Str(<<>>)))
        THEN caught("(parsedData.Remaining || '').toLowerCase is not a function")
        ELSE SuccessResponse(
                 finalResponse(2, L, finalLandmarkOf(L.address.v, f.Landmark), r8))

\* the handler from the end of the PIN logic to its response
finish(revision, L) == IF revision = 1 THEN finishFirst(L) ELSE finishSecond(L)

(******************************* requests ***********************************)

Body(address, customerName) ==
    [present |-> TRUE, address |-> address, customerName |-> customerName]

\* the requests of the model: every address with one name, one address with
\* every name, and the requests that carry no body
Requests ==
    LET \* req.body: absent, or an object whose address and customerName are as given
        NoBody == [present |-> FALSE, address |-> Undefined, customerName |-> Undefined]
        Addresses ==
            { Undefined, Str(<<>>), Str(Txt.Addr1), Str(Txt.Addr2), Str(Txt.Addr3), Str(Txt.Addr4),
              Str(Txt.Addr5), Num(Txt.Pin1) }
        CustomerNames == { Undefined, Null, Str(Txt.Name1), Str(Txt.Name2), Num(Txt.Five) }
    IN  { [method |-> "POST", body |-> Body(a, Str(Txt.Name1))] : a \in Addresses }
        \cup { [method |-> "POST", body |-> Body(Str(Txt.Addr1), n)] : n \in CustomerNames }
        \cup { [method |-> m, body |-> NoBody] : m \in {"POST", "GET", "OPTIONS"} }

(****************************** the batch page ******************************)

\* the strings of the batch page: the headers it expects and writes, its
\* remarks and markers, the messages of fetchVerification, and the order
\* ids, names and addresses of the model's CSV files
Csv ==
    \* "ORDER ID,CUSTOMER NAME,CUSTOMER RAW ADDRESS"
    [ Header |-> <<"O","R","D","E","R"," ","I","D",",","C","U","S","T","O","M","E","R"," ","N","A","M","E",",","C","U","S","T","O","M","E","R"," ","R","A","W"," ","A","D","D","R","E","S","S">>,
    \* "Order ID,Customer Name,Raw Address"
      Header3 |-> <<"O","r","d","e","r"," ","I","D",",","C","u","s","t","o","m","e","r"," ","N","a","m","e",",","R","a","w"," ","A","d","d","r","e","s","s">>,
    \* "CUSTOMER RAW ADDRESS"
      HeaderCol |-> <<"C","U","S","T","O","M","E","R"," ","R","A","W"," ","A","D","D","R","E","S","S">>,
    \* "ORDER ID,CUSTOMER NAME,RAW ADDRESS,CLEAN NAME,ADDRESS LINE 1,LANDMARK,STATE,DISTRICT,PIN,REMARK,ADDRESS QUALITY"
      OutHeader |-> <<"O","R","D","E","R"," ","I","D",",","C","U","S","T","O","M","E","R"," ","N","A","M","E",",","R","A","W"," ","A","D","D","R","E","S","S",",","C","L","E","A","N"," ","N","A","M","E",",","A","D","D","R","E","S","S"," ","L","I","N","E"," ","1",",","L","A","N","D","M","A","R","K",",","S","T","A","T","E",",","D","I","S","T","R","I","C","T",",","P","I","N",",","R","E","M","A","R","K",",","A","D","D","R","E","S","S"," ","Q","U","A","L","I","T","Y">>,
    \* "Order ID,Customer Name,Raw Address,Cleaned Name,Cleaned Address Line,Landmark,State,District,Pin,Remarks,Address Quality"
      OutHeader3 |-> <<"O","r","d","e","r"," ","I","D",",","C","u","s","t","o","m","e","r"," ","N","a","m","e",",","R","a","w"," ","A","d","d","r","e","s","s",",","C","l","e","a","n","e","d"," ","N","a","m","e",",","C","l","e","a","n","e","d"," ","A","d","d","r","e","s","s"," ","L","i","n","e",",","L","a","n","d","m","a","r","k",",","S","t","a","t","e",",","D","i","s","t","r","i","c","t",",","P","i","n",",","R","e","m","a","r","k","s",",","A","d","d","r","e","s","s"," ","Q","u","a","l","i","t","y">>,
    \* "Row-"
      RowDash |-> <<"R","o","w","-">>,
    \* "N/A"
      NA |-> <<"N","/","A">>,
    \* "Skipped: Address is empty."
      Skipped |-> <<"S","k","i","p","p","e","d",":"," ","A","d","d","r","e","s","s"," ","i","s"," ","e","m","p","t","y",".">>,
    \* "Skipped: Empty Raw Address"
      Skipped3 |-> <<"S","k","i","p","p","e","d",":"," ","E","m","p","t","y"," ","R","a","w"," ","A","d","d","r","e","s","s">>,
    \* "BAD"
      BAD |-> <<"B","A","D">>,
    \* "VERY BAD"
      VERYBAD |-> <<"V","E","R","Y"," ","B","A","D">>,
    \* "Low"
      Low |-> <<"L","o","w">>,
    \* "Unauthorized Access"
      Unauthorized |-> <<"U","n","a","u","t","h","o","r","i","z","e","d"," ","A","c","c","e","s","s">>,
    \* "Unauthorized Access. The previously verified code is no longer valid or session expired."
      UnauthorizedFull |-> <<"U","n","a","u","t","h","o","r","i","z","e","d"," ","A","c","c","e","s","s","."," ","T","h","e"," ","p","r","e","v","i","o","u","s","l","y"," ","v","e","r","i","f","i","e","d"," ","c","o","d","e"," ","i","s"," ","n","o"," ","l","o","n","g","e","r"," ","v","a","l","i","d"," ","o","r"," ","s","e","s","s","i","o","n"," ","e","x","p","i","r","e","d",".">>,
    \* "Network/Timeout Error: "
      NetworkOpen |-> <<"N","e","t","w","o","r","k","/","T","i","m","e","o","u","t"," ","E","r","r","o","r",":"," ">>,
    \* "Failed to fetch"
      FailedToFetch |-> <<"F","a","i","l","e","d"," ","t","o"," ","f","e","t","c","h">>,
    \* "Server Error ("
      ServerErrorOpen |-> <<"S","e","r","v","e","r"," ","E","r","r","o","r"," ","(">>,
    \* ")"
      Close |-> <<")">>,
    \* "API Failed: "
      ApiFailedOpen |-> <<"A","P","I"," ","F","a","i","l","e","d",":"," ">>,
    \* "Unknown Server Error."
      UnknownServer |-> <<"U","n","k","n","o","w","n"," ","S","e","r","v","e","r"," ","E","r","r","o","r",".">>,
    \* "API Error"
      ApiErrorLine |-> <<"A","P","I"," ","E","r","r","o","r">>,
    \* "Network/Timeout Error"
      NetworkLine |-> <<"N","e","t","w","o","r","k","/","T","i","m","e","o","u","t"," ","E","r","r","o","r">>,
    \* "Network or timeout error during API call."
      NetworkRemark |-> <<"N","e","t","w","o","r","k"," ","o","r"," ","t","i","m","e","o","u","t"," ","e","r","r","o","r"," ","d","u","r","i","n","g"," ","A","P","I"," ","c","a","l","l",".">>,
    \* "API Error: "
      ApiErrorOpen |-> <<"A","P","I"," ","E","r","r","o","r",":"," ">>,
    \* "Server returned error status: "
      ServerReturned |-> <<"S","e","r","v","e","r"," ","r","e","t","u","r","n","e","d"," ","e","r","r","o","r"," ","s","t","a","t","u","s",":"," ">>,
    \* "Unexpected token < in JSON at position 0"
      Unexpected |-> <<"U","n","e","x","p","e","c","t","e","d"," ","t","o","k","e","n"," ","<"," ","i","n"," ","J","S","O","N"," ","a","t"," ","p","o","s","i","t","i","o","n"," ","0">>,
    \* "Internal Server Error: address.replace is not a function"
      Internal |-> <<"I","n","t","e","r","n","a","l"," ","S","e","r","v","e","r"," ","E","r","r","o","r",":"," ","a","d","d","r","e","s","s",".","r","e","p","l","a","c","e"," ","i","s"," ","n","o","t"," ","a"," ","f","u","n","c","t","i","o","n">>,
    \* "Unauthorized Access. Invalid access code."
      Denied |-> <<"U","n","a","u","t","h","o","r","i","z","e","d"," ","A","c","c","e","s","s","."," ","I","n","v","a","l","i","d"," ","a","c","c","e","s","s"," ","c","o","d","e",".">>,
    \* "bulk-2024"
      Code |-> <<"b","u","l","k","-","2","0","2","4">>,
    \* "A1"
      A1 |-> <<"A","1">>,
    \* "A2"
      A2 |-> <<"A","2">>,
    \* "A3"
      A3 |-> <<"A","3">>,
    \* "A4"
      A4 |-> <<"A","4">>,
    \* "Asha"
      Asha |-> <<"A","s","h","a">>,
    \* "Ravi"
      Ravi |-> <<"R","a","v","i">>,
    \* "Mira"
      Mira |-> <<"M","i","r","a">>,
    \* "MG Road Pune"
      Road |-> <<"M","G"," ","R","o","a","d"," ","P","u","n","e">>,
    \* "45, Camp Pune"
      Comma |-> <<"4","5",","," ","C","a","m","p"," ","P","u","n","e">>,
    \* "  "
      Spaces |-> <<" "," ">>,
    \* "No issues found."
      NoIssues |-> <<"N","o"," ","i","s","s","u","e","s"," ","f","o","u","n","d",".">>,
    \* "Verification failed."
      VerificationFailed |-> <<"V","e","r","i","f","i","c","a","t","i","o","n"," ","f","a","i","l","e","d",".">>,
    \* "Address is required."
      AddressRequired |-> <<"A","d","d","r","e","s","s"," ","i","s"," ","r","e","q","u","i","r","e","d",".">>,
    \* "Failed to verify address after 3 attempts: "
      FailedAfter |-> <<"F","a","i","l","e","d"," ","t","o"," ","v","e","r","i","f","y"," ","a","d","d","r","e","s","s"," ","a","f","t","e","r"," ","3"," ","a","t","t","e","m","p","t","s",":"," ">>,
    \* "API responded with status "
      RespondedWith |-> <<"A","P","I"," ","r","e","s","p","o","n","d","e","d"," ","w","i","t","h"," ","s","t","a","t","u","s"," ">>,
    \* "Too many requests"
      TooMany |-> <<"T","o","o"," ","m","a","n","y"," ","r","e","q","u","e","s","t","s">>,
    \* "Success"
      VerifiedSuccess |-> <<"S","u","c","c","e","s","s">>,
    \* "Failed"
      VerifiedFailed |-> <<"F","a","i","l","e","d">>,
    \* "Unknown error."
      UnknownError |-> <<"U","n","k","n","o","w","n"," ","e","r","r","o","r",".">> ]

\* the largest number of lines after the header in a CSV file of the model
MaxRows == 3

\* the most records of a file of the fourth revision of the batch page
MaxRecords == 2

\* the most rows of the table clients
MaxClients == 2

\* String.prototype.split for a separator of one character
split(s, sep) ==
    LET cuts == { i \in 1..Len(s) : s[i] = sep }
        n == Cardinality(cuts)
        at(k) == IF k = 0 THEN 0
                 ELSE IF k = n + 1 THEN Len(s) + 1
                 ELSE CHOOSE i \in cuts : Cardinality({ j \in cuts : j < i }) = k - 1
    IN  [k \in 1..(n + 1) |-> SubSeq(s, at(k - 1) + 1, at(k) - 1)]

RECURSIVE csvMatches(_, _)
\* [...line.matchAll(/("([^"]*)"|[^,]+)/g)] from position i on: a quoted run
\* up to the next quote, else the characters up to the next comma; a comma
\* itself matches nothing
csvMatches(line, i) ==
    IF i > Len(line) THEN <<>>
    ELSE IF line[i] = "," THEN csvMatches(line, i + 1)
    ELSE LET closing == { j \in (i + 1)..Len(line) : line[j] = "\"" }
             commas  == { j \in i..Len(line) : line[j] = "," }
             last == IF line[i] = "\"" /\ closing # {} THEN Min(closing)
                     ELSE IF commas = {} THEN Len(line)
                     ELSE Min(commas) - 1
         IN  << SubSeq(line, i, last) >> \o csvMatches(line, last + 1)

\* the columns of a data line: split(',') with the quotes at the ends of a
\* column removed and the column trimmed in script.js, split(',') alone in
\* the second revision, the matches of csvRegex in the third
columnsOf(script, line) ==
    LET \* col.replace(/^"|"$/g, '')
        stripQuotes(col) ==
            LET a == IF col # <<>> /\ col[1] = "\"" THEN 1 ELSE 0
                b == IF Len(col) > a /\ col[Len(col)] = "\"" THEN 1 ELSE 0
            IN  SubSeq(col, 1 + a, Len(col) - b)
        \* the map over the matches: a value between quotes loses them (it
        \* holds no further quote, so replacing "" changes nothing)
        csvValue(value) ==
            IF Len(value) >= 2 /\ value[1] = "\"" /\ value[Len(value)] = "\""
            THEN trim(SubSeq(value, 2, Len(value) - 1))
            ELSE trim(value)
        c == split(line, ",")
        m == csvMatches(line, 1)
    IN  IF script = 1 THEN [k \in DOMAIN c |-> trim(stripQuotes(c[k]))]
        ELSE IF script = 2 THEN c
        ELSE [k \in DOMAIN m |-> csvValue(m[k])]

\* orderId = columns[0] || `Row-${i}` ('N/A' in the later revisions),
\* customerName = columns[1] || '', rawAddress = columns[2] || ''
fieldsOf(script, line, i) ==
    LET c == columnsOf(script, line)
        col(k, default) == IF k <= Len(c) /\ c[k] # <<>> THEN c[k] ELSE default
    IN  [orderId |-> col(1, IF script = 1 THEN Csv.RowDash \o NumToChars(i)
                            ELSE Csv.NA),
         customerName |-> col(2, <<>>),
         rawAddress |-> col(3, <<>>)]

\* a page that sends every row to the endpoint
isBlankAddress_Never(script, rawAddress) == FALSE

\* rawAddress.trim() === "" ; rawAddress === '' in the third revision
isBlankAddress(script, rawAddress) ==
    IF script = 3 THEN rawAddress = <<>> ELSE trim(rawAddress) = <<>>

\* the header test: headers.length < 3 || headers[2] !== 'CUSTOMER RAW
\* ADDRESS' rejects the file; the third revision does not look at the header
headerAccepted(script, header) ==
    LET h == split(header, ",")
    IN  \/ script = 3
        \/ /\ Len(h) >= 3
           /\ [i \in 1..Len(trim(h[3])) |-> ToUpperChar(trim(h[3])[i])] = Csv.HeaderCol

\* [...].map(cell => `"${String(cell).replace(/"/g, '""')}"`).join(',')
outputRowOf(cells) ==
    LET quoted(c) ==
            << "\"" >>
            \o Concat([i \in 1..Len(c) |->
                          IF c[i] = "\"" THEN << "\"", "\"" >> ELSE << c[i] >>])
            \o << "\"" >>
    IN  join([k \in DOMAIN cells |-> quoted(cells[k])], << "," >>)

\* an object without any of the properties the row loop reads
NoVerification ==
    [status |-> "", error |-> Undefined, customerCleanName |-> Undefined,
     addressLine1 |-> Undefined, landmark |-> Undefined, state |-> Undefined,
     district |-> Undefined, pin |-> Undefined, remarks |-> Undefined,
     addressQuality |-> Undefined]

\* { status: "Error", error }
errorObject(message) ==
    [NoVerification EXCEPT !.status = "Error", !.error = Str(message)]

\* the record the later revisions build for a failed call
failureRecord(name, line1, remark, quality) ==
    [NoVerification EXCEPT
        !.status = "Error", !.customerCleanName = Str(name),
        !.addressLine1 = Str(line1), !.landmark = Str(<<>>), !.state = Str(<<>>),
        !.district = Str(<<>>), !.pin = Str(<<>>), !.remarks = Str(remark),
        !.addressQuality = Str(quality)]

\* { status: "Skipped", customerCleanName: customerName, remarks: "Skipped:
\* Address is empty.", addressQuality: "BAD" }; the third revision writes
\* 'Skipped: Empty Raw Address' and 'Low' into the row itself
skippedResult(script, customerName) ==
    IF script = 3
    THEN [NoVerification EXCEPT !.status = "Skipped",
                                !.remarks = Str(Csv.Skipped3),
                                !.addressQuality = Str(Csv.Low)]
    ELSE [NoVerification EXCEPT !.status = "Skipped",
                                !.customerCleanName = Str(customerName),
                                !.remarks = Str(Csv.Skipped),
                                !.addressQuality = Str(Csv.BAD)]

\* one answer of fetch(API_ENDPOINT, ...): net = FALSE when fetch rejects;
\* body is "invalid" (response.json() rejects) or "json" with the object
\* json.  The endpoint answers 200 with a record, 500 with an Error body;
\* the platform answers 504 with a page, and an access check with 401.
BatchAnswers ==
    { [net |-> FALSE, status |-> 0, body |-> "invalid", json |-> NoVerification],
      [net |-> TRUE, status |-> 504, body |-> "invalid", json |-> NoVerification],
      [net |-> TRUE, status |-> 401, body |-> "json", json |-> errorObject(Csv.Denied)],
      [net |-> TRUE, status |-> 500, body |-> "json", json |-> errorObject(Csv.Internal)],
      [net |-> TRUE, status |-> 200, body |-> "json",
       json |-> [NoVerification EXCEPT
                    !.status = "Success", !.customerCleanName = Str(Csv.Asha),
                    !.addressLine1 = Str(Txt.MGRoad), !.landmark = Str(<<>>),
                    !.state = Str(Txt.Maharashtra), !.district = Str(Txt.Pune),
                    !.pin = Str(Txt.Pin1),
                    !.remarks = Str(note_PinVerified(Str(Txt.Pin1))),
                    !.addressQuality = Str(Txt.Good)]] }

\* fetchVerification(address, name) when fetch is answered by a: what it
\* returns (outcome "result"), or that it throws to its caller ("throw"), or
\* that the third revision waits and tries again ("retry")
fetchVerification(script, name, a, attempt) ==
    LET ok == a.status >= 200 /\ a.status <= 299
        returns(r) == [outcome |-> "result", result |-> r, message |-> <<>>]
        fails(message) ==
            [outcome |-> IF attempt = 2 THEN "throw" ELSE "retry",
             result |-> NoVerification, message |-> message]
    IN  IF script = 1
        THEN IF ~a.net
             THEN returns(errorObject(Csv.NetworkOpen \o Csv.FailedToFetch))
             ELSE IF a.status = 401
             THEN returns([errorObject(Csv.UnauthorizedFull) EXCEPT
                              !.addressQuality = Str(Csv.VERYBAD)])
             ELSE IF a.body = "invalid"
             THEN returns(errorObject(Concat(<< Csv.ServerErrorOpen,
                                                NumToChars(a.status), Csv.Close >>)))
             ELSE returns(a.json)
        ELSE IF script = 2
        THEN IF ~a.net \/ a.body = "invalid"
             THEN returns(failureRecord(name, Csv.NetworkLine, Csv.NetworkRemark,
                                        Csv.VERYBAD))
             ELSE IF ok THEN returns(a.json)
             ELSE returns(failureRecord(
                              name, Csv.ApiErrorLine,
                              Csv.ApiFailedOpen
                                  \o String(Or(a.json.error, Str(Csv.UnknownServer))),
                              Csv.BAD))
        ELSE IF ~a.net THEN fails(Csv.FailedToFetch)
        ELSE IF ~ok
        THEN IF a.body = "invalid" THEN fails(Csv.Unexpected)
             ELSE fails(String(Or(a.json.error,
                                  Str(Csv.ServerReturned \o NumToChars(a.status)))))
        ELSE IF a.body = "invalid"
        THEN [outcome |-> "throw", result |-> NoVerification, message |-> Csv.Unexpected]
        ELSE returns(a.json)

\* a page that never takes the branch of the security error
isUnauthorized_Never(script, r) == FALSE

\* verificationResult.error && verificationResult.error.includes(
\* "Unauthorized Access"), which only script.js and its copy test
isUnauthorized(script, r) ==
    /\ script = 1
    /\ Truthy(r.error)
    /\ includes(r.error.v, Csv.Unauthorized)

\* the row written for fields f and verificationResult r
rowOf(f, r) ==
    LET cell(x) == String(Or(x, Str(<<>>)))
    IN  outputRowOf(<< f.orderId, f.customerName, f.rawAddress,
                       cell(r.customerCleanName), cell(r.addressLine1),
                       cell(r.landmark), cell(r.state), cell(r.district),
                       cell(r.pin), cell(r.remarks), cell(r.addressQuality) >>)

\* a line of a CSV file for the fields given: as the template of script.js
\* writes its example row, each field between quotes, or the fields as typed
csvLine(orderId, customerName, rawAddress, quoted) ==
    LET q(c) == IF quoted THEN << "\"" >> \o c \o << "\"" >> ELSE c
    IN  Concat(<< q(orderId), << "," >>, q(customerName), << "," >>, q(rawAddress) >>)

\* the lines a file of the model can hold after its header: a plain row, a
\* row in the template's style whose address has a comma, a row with an empty
\* address, a row with an empty name, and a line of spaces
CsvEntries ==
    { [blank |-> FALSE, orderId |-> Csv.A1, customerName |-> Csv.Asha,
       rawAddress |-> Csv.Road, quoted |-> FALSE],
      [blank |-> FALSE, orderId |-> Csv.A2, customerName |-> Csv.Ravi,
       rawAddress |-> Csv.Comma, quoted |-> TRUE],
      [blank |-> FALSE, orderId |-> Csv.A3, customerName |-> Csv.Mira,
       rawAddress |-> <<>>, quoted |-> FALSE],
      [blank |-> FALSE, orderId |-> Csv.A4, customerName |-> <<>>,
       rawAddress |-> Csv.Road, quoted |-> FALSE],
      [blank |-> TRUE, orderId |-> <<>>, customerName |-> <<>>,
       rawAddress |-> <<>>, quoted |-> FALSE] }

\* the files: the header of the template and up to MaxRows lines, or the
\* header that the third revision writes and at most one line
CsvFiles ==
    { [header |-> Csv.Header, entries |-> es] :
         es \in UNION { [1..n -> CsvEntries] : n \in 0..MaxRows } }
    \cup { [header |-> Csv.Header3, entries |-> es] :
             es \in UNION { [1..n -> CsvEntries] : n \in 0..1 } }

\* the page before a file is chosen or an address is typed; requests and settled keep the calls of
\* fetchVerification that were made and those that have returned; stored is
\* the item bulkAccessCode of sessionStorage, accessCode the constant that a
\* run reads from it, disabled the flag of processButton and of fileInput, and
\* revoked whether a run was aborted on Unauthorized Access since the page
\* was last loaded with a code; single is the form of the single-address page,
\* its pending call, the function that rendered the result, and the texts of
\* out-quality and of the remarks
NoBatch ==
    [script |-> 1, phase |-> "idle", file |-> [header |-> <<>>, entries |-> <<>>],
     stored |-> Null, accessCode |-> Null, lines |-> <<>>, i |-> 0, attempt |-> 0,
     outputRows |-> <<>>, requests |-> <<>>, settled |-> <<>>, csv |-> <<>>,
     disabled |-> [processButton |-> FALSE, fileInput |-> FALSE],
     revoked |-> FALSE,
     single |-> [phase |-> "idle", customerName |-> <<>>, rawAddress |-> <<>>,
                 result |-> NoVerification, rendered |-> "", quality |-> <<>>,
                 remarks |-> <<>>, alert |-> <<>>]]

RECURSIVE advance(_)
\* the row loop from its test on: rows with a blank address are written as
\* skipped, one after the other, until a row is sent to the endpoint (phase
\* "await") or no row is left and the CSV is made for download ("complete")
advance(b) ==
    IF b.i >= Len(b.lines)
    THEN [b EXCEPT !.phase = "complete",
                   !.disabled = [processButton |-> FALSE, fileInput |-> FALSE],
                   !.csv = IF b.script = 3 THEN << Csv.OutHeader3 >> \o b.outputRows
                           ELSE b.outputRows]
    ELSE LET f == fieldsOf(b.script, b.lines[b.i + 1], b.i)
         IN  IF isBlankAddress(b.script, f.rawAddress)
             THEN advance([b EXCEPT
                             !.outputRows =
                                 Append(@, rowOf(f, skippedResult(b.script,
                                                                  f.customerName))),
                             !.i = @ + 1])
             ELSE [b EXCEPT !.phase = "await", !.attempt = 0,
                            !.requests = Append(@, [row |-> b.i,
                                                    address |-> f.rawAddress,
                                                    customerName |-> f.customerName])]

\* a page that takes every run for one with an access code
missingCode_Never(script, accessCode) == FALSE

\* if (!accessCode) of handleBulkVerification, which the later revisions of
\* the page do not have
missingCode(script, accessCode) == script = 1 /\ ~Truthy(accessCode)

\* handleBulkVerification and reader.onload up to the first await: the access
\* code is required by script.js, the file needs a line after its header, and
\* the header is tested
upload(script, file, accessCode) ==
    LET lineOf(e) == IF e.blank THEN Csv.Spaces
                     ELSE csvLine(e.orderId, e.customerName, e.rawAddress, e.quoted)
        text == << file.header >>
                \o [k \in DOMAIN file.entries |-> lineOf(file.entries[k])]
        \* text.split('\n').filter(line => line.trim() !== '')
        lines == SelectSeq(text, LAMBDA line : trim(line) # <<>>)
        b == [NoBatch EXCEPT !.script = script, !.file = file,
                             !.stored = accessCode, !.accessCode = accessCode]
    IN  IF missingCode(script, accessCode) THEN [b EXCEPT !.phase = "rejected"]
        ELSE IF Len(lines) < 2 \/ ~headerAccepted(script, lines[1])
        THEN [b EXCEPT !.phase = "rejected", !.lines = lines]
        ELSE advance([b EXCEPT !.lines = lines, !.i = 1,
                               !.disabled = [processButton |-> TRUE,
                                             fileInput |-> TRUE],
                               !.outputRows = IF script = 3 THEN <<>>
                                              ELSE << Csv.OutHeader >>])

\* the row loop after the await of fetchVerification is answered by a
resolve(b, a) ==
    LET f == fieldsOf(b.script, b.lines[b.i + 1], b.i)
        v == fetchVerification(b.script, f.customerName, a, b.attempt)
        \* the catch of the third revision's row loop
        thrownResult ==
            [failureRecord(<<>>, <<>>, Csv.ApiErrorOpen \o v.message, Csv.Low)
                EXCEPT !.status = ""]
        r == IF v.outcome = "throw" THEN thrownResult ELSE v.result
    IN  IF v.outcome = "retry"
        THEN [b EXCEPT !.attempt = @ + 1]
        ELSE LET done == [b EXCEPT !.settled = Append(@, [row |-> b.i, answer |-> a,
                                                           result |-> r])]
             IN  IF isUnauthorized(b.script, r)
                 THEN [done EXCEPT
                          !.phase = "aborted",
                          !.disabled = [processButton |-> FALSE, fileInput |-> FALSE],
                          !.stored = Null, !.revoked = TRUE]
                 ELSE advance([done EXCEPT !.outputRows = Append(@, rowOf(f, r)),
                                           !.i = @ + 1])

(******************* the batch page of the fourth revision *******************)

\* verifyAddressApi(record) at the attempt whose fetch is answered by a: it
\* returns a value (outcome "result"), waits and tries again ("retry"), or
\* leaves its loop and ends without a return statement ("undefined")
verifyAddressApi(a, attempt) ==
    LET maxRetries == 3
        \* the catch of the attempt
        thrown(message) ==
            IF attempt = maxRetries - 1
            THEN [outcome |-> "result",
                  result |-> errorObject(Csv.FailedAfter \o message)]
            ELSE [outcome |-> "retry", result |-> NoVerification]
    IN  IF ~a.net THEN thrown(Csv.FailedToFetch)
        ELSE IF a.body = "invalid" THEN thrown(Csv.Unexpected)
        ELSE IF a.status >= 200 /\ a.status <= 299 /\ a.json.status = "Success"
        THEN [outcome |-> "result", result |-> a.json]
        ELSE IF a.status = 429
        THEN \* continue
             [outcome |-> IF attempt + 1 < maxRetries THEN "retry" ELSE "undefined",
              result |-> NoVerification]
        ELSE thrown(String(Or(a.json.error,
                              Str(Csv.RespondedWith \o NumToChars(a.status)))))

(************************* the single-address page **************************)

\* displayResults(data): what it writes to out-quality and to the remarks
displayResults(data) ==
    [rendered |-> "displayResults",
     quality |-> String(Or(data.addressQuality, Str(Csv.NA))),
     remarks |-> String(Or(data.remarks, Str(Csv.NoIssues)))]

\* displayErrorResult(data)
displayErrorResult(data) ==
    [rendered |-> "displayErrorResult",
     quality |-> Csv.BAD,
     remarks |-> String(Or(Or(data.remarks, data.error), Str(Csv.VerificationFailed)))]

\* handleSingleVerification after its await: the result is rendered by one of
\* the two functions, and the alert of the error branch is raised
render(verificationResult) ==
    IF \/ verificationResult.status = "Success"
       \/ ~StrictEq(verificationResult.addressQuality, Str(Csv.VERYBAD))
    THEN displayResults(verificationResult) @@ [alert |-> <<>>]
    ELSE displayErrorResult(verificationResult)
         @@ [alert |-> String(Or(Or(verificationResult.error,
                                    verificationResult.remarks),
                                 Str(Csv.UnknownError)))]

(******************************** the state **********************************)

VARIABLES
    revision,      \* which of the two revisions held in the file is deployed
    apiKeySet,     \* process.env.GEMINI_API_KEY is set
    pincodeCache,  \* let pincodeCache = {}
    pc,            \* where the handler is: "idle", at one of its awaits, "done"
    local,         \* the handler's local variables
    response,      \* what the handler has sent on res
    fetches,       \* how often fetch(INDIA_POST_API + pin) was called, per key
    returned,      \* what getIndiaPostData last returned, per key
    calls,         \* the lookups and Oracle calls of the request, in order
    batch,         \* the batch page: its file, row loop and output rows
    inflight,      \* per concurrent request, the PIN whose fetch is pending
    admin          \* the admin endpoint: its environment, table and response

vars ==
    << revision, apiKeySet, pincodeCache, pc, local, response, fetches, returned,
       calls, batch, inflight, admin >>

\* the requests that can be in getIndiaPostData at the same time
Requesters == { "first", "second" }

\* the handler's locals before it has assigned any of them
NoLocals ==
    [method |-> "", address |-> Undefined, customerName |-> Undefined,
     cleanedName |-> Undefined, initialPin |-> Undefined, postalData |-> PinError,
     geminiResult |-> NoResult, parseFailed |-> FALSE,
     parsedData |-> NoFields, finalPin |-> Undefined,
     primaryPostOffice |-> EmptyOffice, remarks |-> <<>>]

\* api/admin-create-client.js before a request: ADMIN_SECRET_KEY is not set
\* in the environment, the table clients is empty, nothing was sent on res
NoAdmin ==
    [secretKey |-> Undefined, clients |-> <<>>, phase |-> "idle",
     headerSecret |-> Undefined, method |-> "", body |-> Undefined,
     row |-> Undefined, http |-> 0, error |-> "", new_api_key |-> Undefined]

Init ==
    /\ revision \in {1, 2}
    /\ apiKeySet \in BOOLEAN
    /\ pincodeCache = [k \in CacheKeys |-> NoEntry]
    /\ pc = "idle"
    /\ local = NoLocals
    /\ response = NoResponse
    /\ fetches = [k \in CacheKeys |-> 0]
    /\ returned = [k \in CacheKeys |-> NoEntry]
    /\ calls = <<>>
    /\ batch = NoBatch
    /\ inflight = [p \in Requesters |-> Undefined]
    /\ admin = NoAdmin

(***************************** the handler's steps ***************************)

\* the handler from its entry to its first await or to an early response
enter(rev, req) ==
    LET b == req.body
        None == [NoLocals EXCEPT !.method = req.method]
        L == [NoLocals EXCEPT
                !.method = req.method,
                !.address = b.address,
                !.customerName = b.customerName,
                !.cleanedName = IF rev = 1 THEN cleanCustomerName(b.customerName)
                                ELSE inlineCleanName(b.customerName),
                !.initialPin = extractPin(b.address)]
    IN  IF req.method = "OPTIONS"
        THEN [pc |-> "done", local |-> None, response |-> EndResponse]
        ELSE IF req.method # "POST"
        THEN [pc |-> "done", local |-> None,
              response |-> ErrorResponse(405, "Method Not Allowed")]
        ELSE IF ~b.present
        THEN [pc |-> "done", local |-> None,
              response |-> caught("Cannot destructure property 'address' of 'req.body'")]
        ELSE IF ~Truthy(b.address)
        THEN [pc |-> "done", local |-> [None EXCEPT !.address = b.address],
              response |-> ErrorResponse(400, "Address is required.")]
        ELSE IF rev = 2 /\ inlineCleanNameThrows(b.customerName)
        THEN [pc |-> "done",
              local |-> [None EXCEPT !.address = b.address,
                                     !.customerName = b.customerName],
              response |-> caught("Cannot read properties of undefined (reading 'replace')")]
        ELSE [pc |-> IF Truthy(L.initialPin) THEN "lookup1" ELSE "oracle",
              local |-> L, response |-> NoResponse]

\* the handler from the Oracle's text to its second lookup or to its response
afterOracle(rev, L, text) ==
    LET failed == parseThrows(text)
        firstRemark == note_JsonFail(text.text)
        L1 == IF failed
              THEN [L EXCEPT !.parseFailed = TRUE,
                             !.remarks = << firstRemark >>,
                             !.parsedData = fallbackData(rev, L.address.v, L.initialPin,
                                                         firstRemark)]
              ELSE [L EXCEPT !.parsedData = text.doc.f]
        L2 == [L1 EXCEPT
                 !.finalPin = finalPinOf(rev, L1.parsedData.PIN, L.initialPin),
                 !.primaryPostOffice = primaryOfInitial(L.postalData)]
        L3 == pinNotFoundCheck(rev, withoutReverify(rev, L2))
    IN  IF failed /\ ~IsString(L.address)
        THEN [pc |-> "done", local |-> L,
              response |-> caught("address.replace is not a function")]
        ELSE IF ~failed /\ text.doc.k = "null"
        THEN [pc |-> "done", local |-> L,
              response |-> caught("Cannot read properties of null (reading 'PIN')")]
        ELSE IF reverifies(rev, L2.finalPin, L2.initialPin, L2.postalData)
        THEN [pc |-> "lookup2", local |-> L2, response |-> NoResponse]
        ELSE [pc |-> "done", local |-> L3, response |-> finish(rev, L3)]

\* what getIndiaPostData(pin) can do in the current state, over the answers
\* of the postal service
lookupsOf(pin) ==
    { getIndiaPostData(pincodeCache, pin, a) : a \in PostalAnswers(String(pin)) }

\* what getGeminiResponse can return in the current state
geminiResults == { getGeminiResponse(apiKeySet, g) : g \in GeminiAnswers }

\* a request arrives and the handler runs to its first await
Request ==
    /\ pc = "idle"
    /\ \E req \in Requests :
          LET e == enter(revision, req)
          IN  /\ pc' = e.pc
              /\ local' = e.local
              /\ response' = e.response
    /\ calls' = <<>>
    /\ UNCHANGED << admin, revision, apiKeySet, pincodeCache, fetches, returned, batch,
                    inflight >>

\* postalData = await getIndiaPostData(initialPin)
InitialLookup ==
    /\ pc = "lookup1"
    /\ \E g \in lookupsOf(local.initialPin) :
          LET key == String(local.initialPin)
          IN  /\ pincodeCache' = g.cache
              /\ local' = [local EXCEPT !.postalData = g.ret]
              /\ fetches' = [fetches EXCEPT
                                ![key] = @ + (IF g.fetched THEN 1 ELSE 0)]
              /\ returned' = [returned EXCEPT ![key] = g.ret]
              /\ calls' = Append(calls, [op |-> "lookup", key |-> key,
                                         fetched |-> g.fetched])
    /\ pc' = "oracle"
    /\ UNCHANGED << admin, revision, apiKeySet, response, batch, inflight >>

\* geminiResult = await processAddress(address, postalData), and the handler
\* up to its next await
OracleCall ==
    /\ pc = "oracle"
    /\ \E r \in geminiResults :
          LET L == [local EXCEPT !.geminiResult = r]
          IN  IF geminiFailed(r)
              THEN /\ pc' = "done"
                   /\ response' = ErrorResponse(500, geminiErrorText(r))
                   /\ local' = L
              ELSE LET n == afterOracle(revision, L, r.text)
                   IN  /\ pc' = n.pc
                       /\ response' = n.response
                       /\ local' = n.local
    /\ calls' = Append(calls, [op |-> "oracle", key |-> <<>>, fetched |-> apiKeySet])
    /\ UNCHANGED << admin, revision, apiKeySet, pincodeCache, fetches, returned, batch,
                    inflight >>

\* aiPostalData = await getIndiaPostData(finalPin), and the handler to its end
ReverifyLookup ==
    /\ pc = "lookup2"
    /\ \E g \in lookupsOf(local.finalPin) :
          LET key == String(local.finalPin)
              L == pinNotFoundCheck(revision, afterReverify(revision, local, g.ret))
          IN  /\ pincodeCache' = g.cache
              /\ local' = L
              /\ response' = finish(revision, L)
              /\ fetches' = [fetches EXCEPT
                                ![key] = @ + (IF g.fetched THEN 1 ELSE 0)]
              /\ returned' = [returned EXCEPT ![key] = g.ret]
              /\ calls' = Append(calls, [op |-> "lookup", key |-> key,
                                         fetched |-> g.fetched])
    /\ pc' = "done"
    /\ UNCHANGED << admin, revision, apiKeySet, batch, inflight >>

\* the handler's promise settles after the response is sent; the process
\* waits for the next request
Return ==
    /\ pc = "done"
    /\ pc' = "idle"
    /\ local' = NoLocals
    /\ response' = NoResponse
    /\ calls' = <<>>
    /\ UNCHANGED << admin, revision, apiKeySet, pincodeCache, fetches, returned, batch,
                    inflight >>

Next == Request \/ InitialLookup \/ OracleCall \/ ReverifyLookup \/ Return

Spec == Init /\ [][Next]_vars

(************** the postal lookup called on its own, repeatedly **************)

\* the arguments of the calls: two PINs, and the second one as a number
LookupPins == { Str(Txt.Pin1), Str(Txt.Pin2), Num(Txt.Pin2) }

\* one call getIndiaPostData(pin), the postal service answering a if asked;
\* calls keeps this call and the one before it
LookupCall(pin, a) ==
    /\ pc = "idle"
    /\ LET key == String(pin)
           g == getIndiaPostData(pincodeCache, pin, a)
           entry == [op |-> "lookup", key |-> key, fetched |-> g.fetched,
                     answer |-> a, ret |-> g.ret]
       IN  /\ pincodeCache' = g.cache
           /\ fetches' = [fetches EXCEPT ![key] = @ + (IF g.fetched THEN 1 ELSE 0)]
           /\ returned' = [returned EXCEPT ![key] = g.ret]
           /\ calls' = IF calls = <<>> THEN << entry >>
                       ELSE << calls[Len(calls)], entry >>
    /\ UNCHANGED << admin, revision, apiKeySet, pc, local, response, batch, inflight >>

LookupSpec ==
    Init /\ [][\E pin \in LookupPins :
                  \E a \in PostalAnswers(String(pin)) : LookupCall(pin, a)]_vars

(************************** interleaved lookups *****************************)

\* Two requests are served by one process: each runs until an await and the
\* other may run in between.  getIndiaPostData has one such point between its
\* test of pincodeCache[pin] and its assignments to it: the await of fetch and
\* of response.json().  inflight[p] is the pin of the call that requester p
\* has suspended there, undefined when p has none.

\* requester p calls getIndiaPostData(pin): an entry is returned at once, a
\* miss issues the fetch and suspends
StartLookup(p, pin) ==
    /\ pc = "idle"
    /\ inflight[p] = Undefined
    /\ LET key == String(pin)
       IN  IF pincodeCache[key] # NoEntry
           THEN /\ returned' = [returned EXCEPT ![key] = pincodeCache[key]]
                /\ UNCHANGED << inflight, fetches >>
           ELSE /\ inflight' = [inflight EXCEPT ![p] = pin]
                /\ fetches' = [fetches EXCEPT ![key] = @ + 1]
                /\ UNCHANGED returned
    /\ UNCHANGED << admin, revision, apiKeySet, pincodeCache, pc, local, response, calls, batch >>

\* the fetch of requester p settles with answer a: the rest of
\* getIndiaPostData assigns pincodeCache[pin] and returns it
SettleLookup(p, a) ==
    /\ pc = "idle"
    /\ inflight[p] # Undefined
    /\ LET key == String(inflight[p])
       IN  /\ pincodeCache' = [pincodeCache EXCEPT ![key] = postalDataOf(a)]
           /\ returned' = [returned EXCEPT ![key] = postalDataOf(a)]
    /\ inflight' = [inflight EXCEPT ![p] = Undefined]
    /\ UNCHANGED << admin, revision, apiKeySet, pc, local, response, fetches, calls, batch >>

ConcSpec ==
    Init /\ [][\E p \in Requesters :
                  \/ \E pin \in LookupPins : StartLookup(p, pin)
                  \/ \E a \in PostalAnswers(String(inflight[p])) : SettleLookup(p, a)]_vars

(****************************** the batch run ********************************)

\* the endpoint is present through its answers only: the handler is at rest
BulkInit ==
    /\ revision = 1
    /\ apiKeySet = TRUE
    /\ pincodeCache = [k \in CacheKeys |-> NoEntry]
    /\ pc = "idle"
    /\ local = NoLocals
    /\ response = NoResponse
    /\ fetches = [k \in CacheKeys |-> 0]
    /\ returned = [k \in CacheKeys |-> NoEntry]
    /\ calls = <<>>
    /\ batch \in { [NoBatch EXCEPT !.script = s] : s \in {1, 2, 3} }
                \cup { [NoBatch EXCEPT !.stored = Str(Csv.Code)] }
    /\ inflight = [p \in Requesters |-> Undefined]
    /\ admin = NoAdmin

\* the user enters the access code on the home page, which stores it, and
\* the batch page is loaded anew
Login ==
    /\ batch.script = 1
    /\ batch' = [NoBatch EXCEPT !.stored = Str(Csv.Code)]
    /\ UNCHANGED << admin, revision, apiKeySet, pincodeCache, pc, local, response, fetches,
                    returned, calls, inflight >>

\* the user picks a file and presses the button, which is not disabled:
\* handleBulkVerification reads the stored access code, and it and
\* reader.onload run to the first await or to their end.  A run that was
\* completed or rejected leaves the stored code as it found it, so that the
\* run after it starts as that run did: the model follows the runs of a
\* fresh page, with any file, and after an abort, which has removed the
\* code, a press of the button with the file that is still chosen.
Upload ==
    /\ ~batch.disabled.processButton
    /\ batch.phase \in {"idle", "aborted"}
    /\ \E file \in (IF batch.phase = "idle" THEN CsvFiles ELSE { batch.file }) :
          batch' = [upload(batch.script, file, batch.stored)
                       EXCEPT !.revoked = batch.revoked]
    /\ UNCHANGED << admin, revision, apiKeySet, pincodeCache, pc, local, response, fetches,
                    returned, calls, inflight >>

\* the pending fetch of fetchVerification settles and the row loop runs on
\* to its next await or to its end
Resolve ==
    /\ batch.phase = "await"
    /\ \E a \in BatchAnswers : batch' = resolve(batch, a)
    /\ UNCHANGED << admin, revision, apiKeySet, pincodeCache, pc, local, response, fetches,
                    returned, calls, inflight >>

BulkSpec == BulkInit /\ [][Login \/ Upload \/ Resolve]_vars

(******************** the batch run, fourth revision *************************)

\* the click on processButton with the records of the loaded file: none, and
\* the handler shows a modal and returns, or the loop starts and awaits
\* verifyAddressApi for the first record
Process ==
    /\ batch.phase = "idle"
    /\ \E records \in UNION { [1..n -> { Csv.Road, Csv.Comma }] : n \in 0..MaxRecords } :
          batch' = [NoBatch EXCEPT
                       !.script = 4, !.lines = records,
                       !.phase = IF records = <<>> THEN "rejected" ELSE "await",
                       !.disabled = [processButton |-> records # <<>>,
                                     fileInput |-> records # <<>>]]
    /\ UNCHANGED << admin, revision, apiKeySet, pincodeCache, pc, local, response, fetches,
                    returned, calls, inflight >>

\* the fetch of an attempt of verifyAddressApi settles: the endpoint's
\* answers, or a 429; the function tries again, or the loop of the click
\* handler goes on with what the function returned: it reads
\* apiResult.status, which throws when apiResult is undefined, pushes the
\* output record and turns to the next record or finishes
Attempt ==
    /\ batch.script = 4
    /\ batch.phase = "await"
    /\ \E a \in BatchAnswers
                 \cup { [net |-> TRUE, status |-> 429, body |-> "json",
                         json |-> errorObject(Csv.TooMany)] } :
          LET v == verifyAddressApi(a, batch.attempt)
              done == [batch EXCEPT
                          !.attempt = 0,
                          !.requests = Append(@, batch.attempt + 1),
                          !.settled = Append(@, [row |-> batch.i, answer |-> a,
                                                 undefined |-> v.outcome = "undefined",
                                                 result |-> v.result])]
          IN  batch' =
                IF v.outcome = "retry" THEN [batch EXCEPT !.attempt = @ + 1]
                ELSE IF v.outcome = "undefined" THEN [done EXCEPT !.phase = "crashed"]
                ELSE [done EXCEPT
                         !.i = @ + 1,
                         !.outputRows =
                             Append(@, IF v.result.status = "Success"
                                       THEN Csv.VerifiedSuccess
                                       ELSE Csv.VerifiedFailed),
                         !.phase = IF batch.i + 1 < Len(batch.lines) THEN "await"
                                   ELSE "complete",
                         !.disabled = [processButton |-> TRUE,
                                       fileInput |-> batch.i + 1 < Len(batch.lines)]]
    /\ UNCHANGED << admin, revision, apiKeySet, pincodeCache, pc, local, response, fetches,
                    returned, calls, inflight >>

RetrySpec == Init /\ [][Process \/ Attempt]_vars

(***************************** the admin endpoint ****************************)

\* the deployment is configured anew: ADMIN_SECRET_KEY is set to a secret or
\* removed; the table stays
Configure ==
    /\ admin.phase # "await"
    /\ \E key \in { Undefined, Str(<<"a","d","m","-","k","e","y">>) } :
          admin' = [NoAdmin EXCEPT !.secretKey = key, !.clients = admin.clients]
    /\ UNCHANGED << revision, apiKeySet, pincodeCache, pc, local, response, fetches,
                    returned, calls, batch, inflight >>

\* a request arrives: the handler answers 401, 405 or 400, or makes the key
\* and awaits the insert into clients
CreateClient ==
    /\ admin.phase # "await"
    /\ Len(admin.clients) < MaxClients
    /\ \E secret \in { Undefined, Str(<<"a","d","m","-","k","e","y">>),
                        Str(<<"g","u","e","s","s">>) } :
       \E method \in { "POST", "GET" } :
       \E body \in { Undefined,
                      [user_id |-> Undefined, plan_limit |-> Num(<<"5">>),
                       is_active |-> Undefined],
                      [user_id |-> Str(<<"u","1">>), plan_limit |-> Num(<<"5">>),
                       is_active |-> Undefined],
                      [user_id |-> Str(<<"u","2">>), plan_limit |-> Num(<<"9">>),
                       is_active |-> [t |-> "boolean", v |-> <<"f","a","l","s","e">>]] } :
       \E randomBytes \in { <<"0","a">>, <<"f","7">> } :
          LET req == [NoAdmin EXCEPT !.secretKey = admin.secretKey,
                                     !.clients = admin.clients,
                                     !.headerSecret = secret, !.method = method,
                                     !.body = body, !.phase = "done"]
              apiKey == Str(<<"s","k","_","p","r","o","d","_">> \o randomBytes)
          IN  admin' =
                IF ~StrictEq(secret, admin.secretKey)
                THEN [req EXCEPT !.http = 401,
                         !.error = "Unauthorized Admin Access. Invalid Secret Key."]
                ELSE IF method # "POST" \/ body = Undefined
                THEN [req EXCEPT !.http = 405,
                                 !.error = "Method Not Allowed or Missing Body"]
                ELSE IF ~Truthy(body.user_id) \/ ~Truthy(body.plan_limit)
                THEN [req EXCEPT
                         !.http = 400,
                         !.error = "Missing user_id or plan_limit in request body."]
                ELSE [req EXCEPT
                         !.phase = "await",
                         !.row = [user_id |-> body.user_id, api_key |-> apiKey,
                                  plan_limit |-> body.plan_limit,
                                  current_usage |-> 0,
                                  is_active |-> IF body.is_active = Undefined
                                                THEN [t |-> "boolean",
                                                      v |-> <<"t","r","u","e">>]
                                                ELSE body.is_active]]
    /\ UNCHANGED << revision, apiKeySet, pincodeCache, pc, local, response, fetches,
                    returned, calls, batch, inflight >>

\* the insert settles: with an error, and the handler answers 500, or with
\* the row in the table, and the handler answers 200 with the key
Inserted ==
    /\ admin.phase = "await"
    /\ \E error \in BOOLEAN :
          admin' =
            IF error
            THEN [admin EXCEPT !.phase = "done", !.http = 500,
                               !.error = "Database Write Error"]
            ELSE [admin EXCEPT !.phase = "done", !.http = 200,
                               !.clients = Append(@, admin.row),
                               !.new_api_key = admin.row.api_key]
    /\ UNCHANGED << revision, apiKeySet, pincodeCache, pc, local, response, fetches,
                    returned, calls, batch, inflight >>

AdminSpec == Init /\ [][Configure \/ CreateClient \/ Inserted]_vars

(************************* the single-address form ***************************)

\* the user types a name and an address and presses the button, which is
\* enabled; after a result, Verify Another has shown the form again.
\* handleSingleVerification trims both values and runs to its alert or to
\* its await of fetchVerification
Verify ==
    /\ batch.single.phase # "await"
    /\ \E name \in { <<>>, Csv.Asha, Csv.Ravi, Csv.Mira } :
       \E address \in { Csv.Spaces, Csv.Road, Csv.Comma, Txt.Addr1, Txt.Addr5 } :
          LET customerName == trim(name)
              rawAddress == trim(address)
          IN  batch' =
                [batch EXCEPT !.single =
                    IF rawAddress = <<>>
                    THEN [@ EXCEPT !.phase = "alerted"]
                    ELSE [NoBatch.single EXCEPT !.phase = "await",
                                                !.customerName = customerName,
                                                !.rawAddress = rawAddress]]
    /\ UNCHANGED << admin, revision, apiKeySet, pincodeCache, pc, local, response, fetches,
                    returned, calls, inflight >>

\* the fetch of fetchVerification settles: the endpoint's answers, or its 400
\* for a request without an address; the result is rendered
Show ==
    /\ batch.single.phase = "await"
    /\ \E a \in BatchAnswers
                 \cup { [net |-> TRUE, status |-> 400, body |-> "json",
                         json |-> errorObject(Csv.AddressRequired)] } :
          LET verificationResult ==
                  fetchVerification(1, batch.single.customerName, a, 0).result
          IN  batch' = [batch EXCEPT !.single =
                           [phase |-> "shown",
                            customerName |-> @.customerName,
                            rawAddress |-> @.rawAddress,
                            result |-> verificationResult]
                           @@ render(verificationResult)]
    /\ UNCHANGED << admin, revision, apiKeySet, pincodeCache, pc, local, response, fetches,
                    returned, calls, inflight >>

SingleSpec == Init /\ [][Verify \/ Show]_vars

(********************************* claims ***********************************)

\* C1: calls of getIndiaPostData with the same PIN issue at most one fetch in
\* total, whatever the postal service answered: a call leaves its result in
\* pincodeCache under the PIN, and every later call with that PIN makes no
\* fetch and returns the result of the earlier one.
C1_LookupIsCachedOnce ==
    /\ \A k \in CacheKeys : fetches[k] <= 1
    /\ \A i \in DOMAIN calls : pincodeCache[calls[i].key] = calls[i].ret
    /\ \A i, j \in DOMAIN calls :
          i < j /\ calls[i].key = calls[j].key
             => ~calls[j].fetched /\ calls[j].ret = calls[i].ret

\* a lookup that failed on a network error is followed by a call with the
\* same PIN that the service would have answered with the offices
C1_FailureServedFromCache ==
    /\ Len(calls) >= 2
    /\ calls[1].key = calls[2].key
    /\ calls[1].fetched /\ ~calls[1].answer.net
    /\ calls[2].answer.net /\ calls[2].answer.status = 200
    /\ calls[2].answer.Status = "Success" /\ calls[2].answer.list # <<>>
    /\ calls[2].ret = PinError

\* the handler has answered with a status "Success" body
Succeeded == pc = "done" /\ response.status = "Success"

\* C2: in every status "Success" response the field pin is null, the empty
\* string, or a string of exactly six digits.
C2_PinIsNullOrSixDigits ==
    Succeeded =>
        LET pin == response.record.pin
        IN  \/ pin = Null
            \/ pin = Str(<<>>)
            \/ IsString(pin) /\ IsExactPin(pin.v)

\* C3: every status "Success" response carries a non-empty remarks string.
C3_RemarksNonEmpty ==
    Succeeded =>
        /\ IsString(response.record.remarks)
        /\ response.record.remarks.v # <<>>

\* a Success response for an address without a PIN, whose only remark is the
\* one that the guarded push of the PIN-not-found alert added
C3_OnlyPinNotFound ==
    /\ Succeeded
    /\ response.record.pin = Null
    /\ response.record.remarks = Str(RemarkText.PinNotFound)

\* C9: getIndiaPostData returns PinStatus "Success" exactly when the postal
\* service answered HTTP 200 with Status "Success" and a non-empty PostOffice
\* list, and PinStatus "Error" in every other case.
C9_SuccessIffOfficesListed ==
    \A i \in DOMAIN calls :
        calls[i].fetched =>
            LET a == calls[i].answer
                complete == /\ a.net /\ a.status = 200 /\ a.body = "element"
                            /\ a.Status = "Success" /\ a.hasList /\ a.list # <<>>
            IN  /\ calls[i].ret.PinStatus \in {"Success", "Error"}
                /\ calls[i].ret.PinStatus = "Success" <=> complete

\* the handler's await of the Oracle has resolved in this request
OracleAnswered == \E i \in DOMAIN calls : calls[i].op = "oracle"

\* the Oracle call produced a non-empty text and no error
OracleGaveText ==
    /\ OracleAnswered
    /\ local.geminiResult.error = ""
    /\ local.geminiResult.hasText
    /\ local.geminiResult.text.kind # "empty"

\* "CRITICAL_ALERT"
CriticalMark == SubSeq(RemarkText.PinNotFound, 1, 14)

\* C4: when the Oracle's text is not valid JSON and the address is a string,
\* the handler answers HTTP 200 with status "Success", addressQuality
\* "Very Bad" and remarks that contain the JSON-parse-failure note, whatever
\* the PIN lookups returned.
C4_ParseFailureDegrades ==
    ( /\ pc = "done"
      /\ OracleGaveText
      /\ parseThrows(local.geminiResult.text)
      /\ IsString(local.address) )
    => /\ response.http = 200
       /\ response.status = "Success"
       /\ response.record.addressQuality = Str(Txt.VeryBad)
       /\ includes(response.record.remarks.v,
                   note_JsonFail(local.geminiResult.text.text))

\* the Oracle's text parses as JSON but is not an object with the keys PIN,
\* FormattedAddress and AddressQuality
OffSchema ==
    /\ OracleGaveText
    /\ ~parseThrows(local.geminiResult.text)
    /\ LET d == local.geminiResult.text.doc
       IN  \/ d.k # "object"
           \/ d.f.PIN = Undefined
           \/ d.f.FormattedAddress = Undefined
           \/ d.f.AddressQuality = Undefined

\* C5: when the Oracle's text parses as JSON but is off-schema, the handler
\* answers with status "Success", never with HTTP 500, and the record has a
\* low addressQuality and a critical remark.
C5_OffSchemaDegrades ==
    ( pc = "done" /\ OffSchema /\ IsString(local.address) )
    => /\ response.http # 500
       /\ response.status = "Success"
       /\ response.record.addressQuality \in { Str(Txt.Bad), Str(Txt.VeryBad) }
       /\ includes(response.record.remarks.v, CriticalMark)

\* C6: every POST request that the handler has finished with was answered by
\* a JSON body of status "Success" or "Error"; an Error body carries a
\* message; and where a statement of the chain threw (the body is absent, the
\* name cannot be cleaned, the parsed document is null, the selected post
\* office is undefined) the answer is a status "Error" body with a message.
C6_ExceptionsAnswered ==
    ( pc = "done" /\ local.method = "POST" )
    => /\ response.status \in {"Success", "Error"}
       /\ response.status = "Success" => response.http = 200
       /\ response.status = "Error" =>
              /\ response.http \in {400, 500}
              /\ response.error # ""
              /\ response.record = NoRecord
       /\ ( \/ ~local.primaryPostOffice.def
            \/ revision = 2 /\ Truthy(local.address)
                            /\ ~IsString(local.customerName)
            \/ OracleGaveText /\ ~parseThrows(local.geminiResult.text)
                              /\ local.geminiResult.text.doc.k = "null" )
          => response.status = "Error" /\ response.http = 500

\* the post office selected from an empty list is undefined, reading its
\* Name threw, and the handler answered 500
C6_ThrownAndAnswered ==
    /\ pc = "done"
    /\ local.method = "POST"
    /\ ~local.primaryPostOffice.def
    /\ response.http = 500
    /\ response.status = "Error"

\* C7: when the Oracle call produces no text (no API key, a non-200 answer,
\* no candidates, a network error, an empty or missing text), the handler
\* answers HTTP 500 with status "Error" and a non-empty message, and sends no
\* Success record.
C7_OracleFailureIs500 ==
    ( pc = "done" /\ OracleAnswered /\ ~OracleGaveText )
    => /\ response.http = 500
       /\ response.status = "Error"
       /\ response.error # ""
       /\ response.record = NoRecord

\* the Oracle answered 200 with no candidates, and the handler answered 500
C7_NoCandidatesAnswered ==
    /\ pc = "done"
    /\ OracleAnswered
    /\ local.geminiResult.error = "Gemini API Error: No candidates found in response."
    /\ response.http = 500

\* C8: a POST with a non-empty string address and no customerName is
\* answered with status "Success" and customerCleanName null, unless the
\* Oracle call produced no text.
C8_NameIsOptional ==
    ( /\ pc = "done"
      /\ local.method = "POST"
      /\ IsString(local.address) /\ Truthy(local.address)
      /\ local.customerName = Undefined
      /\ ~(OracleAnswered /\ ~OracleGaveText) )
    => /\ response.status = "Success"
       /\ response.record.customerCleanName = Null

\* the cached reference for the pin of the response, if there is one
ReferenceOf(pin) ==
    IF Truthy(pin) /\ String(pin) \in CacheKeys THEN pincodeCache[String(pin)]
    ELSE NoEntry

\* C10 (as stated): in every Success record, when a verified reference exists
\* for the final pin, postOffice, tehsil, district and state equal the fields
\* of its first office; otherwise they are the Oracle's values.
C10_GeoEqualsReference ==
    Succeeded =>
        LET rec == response.record
            ref == ReferenceOf(rec.pin)
            f   == local.parsedData
        IN  IF ref.PinStatus = "Success"
            THEN /\ ref.PostOfficeList # <<>>
                 /\ rec.postOffice = ref.PostOfficeList[1].Name
                 /\ rec.tehsil = ref.PostOfficeList[1].Taluk
                 /\ rec.district = ref.PostOfficeList[1].District
                 /\ rec.state = ref.PostOfficeList[1].State
            ELSE /\ rec.postOffice = Or(f.P_O_, Str(<<>>))
                 /\ rec.tehsil = Or(f.Tehsil, Str(<<>>))
                 /\ rec.district = Or(f.DIST_, Str(<<>>))
                 /\ rec.state = Or(f.State, Str(<<>>))

\* C10 (amended): in every Success record, each of postOffice, tehsil,
\* district and state is the field of the first office of the verified
\* reference for the final pin when the reference has a first office and the
\* field is not empty; otherwise it is the Oracle's value for P.O., Tehsil,
\* DIST. or State when that is not empty, and the empty string when it is.
C10_GeoPrefersReference ==
    Succeeded =>
        LET rec == response.record
            ref == ReferenceOf(rec.pin)
            f   == local.parsedData
            office == IF ref.PinStatus = "Success" /\ ref.PostOfficeList # <<>>
                      THEN ref.PostOfficeList[1]
                      ELSE [Name |-> Str(<<>>), Taluk |-> Str(<<>>),
                            District |-> Str(<<>>), State |-> Str(<<>>)]
        IN  /\ rec.postOffice = Or(Or(office.Name, f.P_O_), Str(<<>>))
            /\ rec.tehsil = Or(Or(office.Taluk, f.Tehsil), Str(<<>>))
            /\ rec.district = Or(Or(office.District, f.DIST_), Str(<<>>))
            /\ rec.state = Or(Or(office.State, f.State), Str(<<>>))

\* a Success record for a verified pin whose first office names no State:
\* the district is the office's, the state is the Oracle's
C10_OracleFillsEmptyField ==
    /\ Succeeded
    /\ LET ref == ReferenceOf(response.record.pin)
       IN  /\ ref.PinStatus = "Success"
           /\ ref.PostOfficeList # <<>>
           /\ ref.PostOfficeList[1].State = Str(<<>>)
           /\ response.record.district = ref.PostOfficeList[1].District
    /\ response.record.state = Str(Txt.Telangana)

\* the PIN field of the object the Oracle answered with
OraclePin == local.geminiResult.text.doc.f.PIN

\* the request is finished, its raw text held a PIN whose lookup is not
\* verified, and the Oracle answered with an object whose PIN is six digits,
\* differs from the PIN of the raw text and has a verified lookup
PinCorrectionCase ==
    /\ pc = "done"
    /\ OracleGaveText
    /\ ~parseThrows(local.geminiResult.text)
    /\ local.geminiResult.text.doc.k = "object"
    /\ Truthy(local.initialPin)
    /\ IsExactPin(String(OraclePin))
    /\ String(OraclePin) # String(local.initialPin)
    /\ pincodeCache[String(local.initialPin)].PinStatus = "Error"
    /\ pincodeCache[String(OraclePin)].PinStatus = "Success"

\* the note of the branch that accepted the Oracle's PIN: `PIN (${initialPin})
\* was incorrect. Corrected to (${finalPin}) and verified.` in the first
\* revision, `CRITICAL_ALERT: Wrong PIN (${initialPin}) corrected to
\* (${finalPin}).` in the second
CorrectionNote ==
    IF revision = 1 THEN note_PinCorrected(local.initialPin, OraclePin)
    ELSE note_WrongPin(local.initialPin, OraclePin)

\* C11 (as stated): when the raw text contains a PIN whose lookup is
\* unverified and the Oracle returns a different 6-digit PIN whose lookup is
\* verified, the final record has pin equal to the Oracle's PIN, district and
\* state equal to those of the first office of the Oracle PIN's reference,
\* and remarks containing a correction note naming both PINs.
C11_CorrectionTakesOffice ==
    ( PinCorrectionCase /\ Succeeded ) =>
        LET rec == response.record
            ref == pincodeCache[String(OraclePin)]
        IN  /\ rec.pin = OraclePin
            /\ ref.PostOfficeList # <<>>
            /\ rec.district = ref.PostOfficeList[1].District
            /\ rec.state = ref.PostOfficeList[1].State
            /\ includes(rec.remarks.v, CorrectionNote)

\* C11 (amended): in the same case the final record has pin equal to the
\* Oracle's PIN and remarks containing the correction note naming both PINs;
\* district and state are each the field of the first office of the Oracle
\* PIN's reference when the reference lists an office and the field is not
\* empty, and otherwise the Oracle's DIST. or State, or the empty string.
C11_CorrectionPrefersOffice ==
    ( PinCorrectionCase /\ Succeeded ) =>
        LET rec == response.record
            ref == pincodeCache[String(OraclePin)]
            f   == local.parsedData
            office == IF ref.PostOfficeList # <<>> THEN ref.PostOfficeList[1]
                      ELSE [Name |-> Str(<<>>), Taluk |-> Str(<<>>),
                            District |-> Str(<<>>), State |-> Str(<<>>)]
        IN  /\ rec.pin = OraclePin
            /\ rec.district = Or(Or(office.District, f.DIST_), Str(<<>>))
            /\ rec.state = Or(Or(office.State, f.State), Str(<<>>))
            /\ includes(rec.remarks.v, CorrectionNote)

\* 411001 of the raw text was looked up without success in this request, the
\* Oracle's 500081 was then looked up and verified, and the record carries
\* 500081 with the office's district and the Oracle's state
C11_CorrectedToOraclePin ==
    /\ PinCorrectionCase
    /\ Succeeded
    /\ Len(calls) = 3
    /\ calls[1].fetched /\ calls[3].fetched
    /\ pincodeCache[Txt.Pin2].PostOfficeList # <<>>
    /\ response.record.pin = Str(Txt.Pin2)
    /\ response.record.district = Str(Txt.Hyderabad)
    /\ response.record.state = Str(Txt.Telangana)

\* the request is finished, its address is a string without six consecutive
\* digits, and the Oracle answered with an object whose PIN is null
NoPinAnywhere ==
    /\ pc = "done"
    /\ IsString(local.address)
    /\ \A i \in 1..(Len(local.address.v) - PinLen + 1) :
          ~AllDigits(SubSeq(local.address.v, i, i + PinLen - 1))
    /\ OracleGaveText
    /\ ~parseThrows(local.geminiResult.text)
    /\ local.geminiResult.text.doc.k = "object"
    /\ OraclePin = Null

\* C12: when the raw address contains no 6-digit sequence and the Oracle
\* returns PIN null, the final record has pin null and remarks containing the
\* critical note "PIN not found after verification attempts", and no postal
\* lookup is issued for that request.
C12_NoPinNoLookup ==
    ( NoPinAnywhere /\ Succeeded ) =>
        /\ response.record.pin = Null
        /\ includes(response.record.remarks.v, RemarkText.PinNotFound)
        /\ includes(RemarkText.PinNotFound, CriticalMark)
        /\ \A i \in DOMAIN calls : calls[i].op # "lookup"
        /\ local.postalData = PinError

\* "Dadu Majra Colony" with an Oracle PIN of null was answered with a record
\* after the Oracle call alone
C12_ColonyWithoutPin ==
    /\ NoPinAnywhere
    /\ Succeeded
    /\ local.address = Str(Txt.Addr2)
    /\ Len(calls) = 1
    /\ response.record.pin = Null

\* the rows of the chosen file that are not blank lines, in order
DataRows == SelectSeq(batch.file.entries, LAMBDA e : ~e.blank)

\* the output rows written so far, the header row of the first two revisions
\* not counted
RowsWritten ==
    IF batch.script = 3 \/ batch.outputRows = <<>> THEN batch.outputRows
    ELSE Tail(batch.outputRows)

\* C13: for a CSV with N non-blank data rows and no authorization abort,
\* handleBulkVerification produces exactly N output rows after the header,
\* the k-th output row carries the orderId, customer name and raw address of
\* the k-th input row, and rows are verified strictly one at a time in input
\* order (request k+1 is issued only after request k has resolved).
C13_RowsInOrder ==
    /\ batch.phase = "complete" =>
          /\ Len(batch.csv) = 1 + Len(DataRows)
          /\ \A k \in 1..Len(DataRows) :
                LET e == DataRows[k]
                    head == outputRowOf(<< e.orderId, e.customerName, e.rawAddress >>)
                            \o << "," >>
                IN  /\ k + 1 <= Len(batch.csv)
                    /\ Len(batch.csv[k + 1]) >= Len(head)
                    /\ SubSeq(batch.csv[k + 1], 1, Len(head)) = head
    /\ \A j \in 1..(Len(batch.requests) - 1) :
          batch.requests[j].row < batch.requests[j + 1].row
    /\ batch.phase \in {"await", "complete"} =>
          \A j \in 1..Len(batch.requests) :
             ( j < Len(batch.requests) \/ batch.phase = "complete" )
                => Len(RowsWritten) >= batch.requests[j].row

\* the answer is a failure that is not one of authorization: fetch rejected,
\* the body is not JSON, or the body has status "Error"
FailedOtherwise(a) ==
    /\ a.status # 401
    /\ \/ ~a.net
       \/ a.body = "invalid"
       \/ a.json.status = "Error"

\* C14: in the batch flow, a row whose verification fails for a reason other
\* than authorization (network error, non-JSON body, server status "Error")
\* does not abort the batch: an output row is still written for that orderId,
\* that row records the failure (a non-empty remark or error text), and every
\* later row is still processed.
C14_FailureIsRecorded ==
    \A j \in 1..Len(batch.settled) :
        LET s == batch.settled[j]
            f == fieldsOf(batch.script, batch.lines[s.row + 1], s.row)
            id == outputRowOf(<< f.orderId >>) \o << "," >>
        IN  FailedOtherwise(s.answer) =>
               /\ ~(j = Len(batch.settled) /\ batch.phase = "aborted")
               /\ Len(RowsWritten) >= s.row
               /\ SubSeq(RowsWritten[s.row], 1, Len(id)) = id
               /\ \/ /\ Truthy(s.result.remarks)
                     /\ includes(RowsWritten[s.row], s.result.remarks.v)
                  \/ /\ Truthy(s.result.error)
                     /\ includes(RowsWritten[s.row], s.result.error.v)
               /\ batch.phase = "complete" => Len(RowsWritten) = Len(batch.lines) - 1

\* fetchVerification returned the Unauthorized Access error
UnauthorizedResult(r) == Truthy(r.error) /\ includes(r.error.v, Csv.Unauthorized)

\* C15: when the verification of a batch row returns the Unauthorized Access
\* error, the batch stops at that row: no request is issued for any later
\* row, no output row is appended for that row or a later one, and the step
\* that builds and downloads the completed file is never reached.
C15_UnauthorizedStops ==
    \A j \in 1..Len(batch.settled) :
        LET s == batch.settled[j]
        IN  UnauthorizedResult(s.result) =>
               /\ j = Len(batch.settled)
               /\ batch.phase = "aborted"
               /\ \A q \in 1..Len(batch.requests) : batch.requests[q].row <= s.row
               /\ Len(RowsWritten) < s.row
               /\ batch.i = s.row
               /\ batch.csv = <<>>

\* the second row of a file of three is refused after the first was written
C15_StoppedMidway ==
    /\ batch.phase = "aborted"
    /\ Len(batch.settled) = 2
    /\ UnauthorizedResult(batch.settled[2].result)
    /\ batch.settled[2].row = 2
    /\ Len(batch.lines) - 1 = 3
    /\ Len(RowsWritten) = 1

\* the data rows (by their index in lines) whose raw address is blank
BlankRows ==
    { k \in 1..(Len(batch.lines) - 1) :
        trim(fieldsOf(batch.script, batch.lines[k + 1], k).rawAddress) = <<>> }

\* blank rows are not sent, and the loop goes past them: a blank row is
\* written as soon as the loop has reached it, with the remark and the
\* quality given by Skip
SkippedAs(Skip(_, _)) ==
    \A k \in BlankRows :
        LET f == fieldsOf(batch.script, batch.lines[k + 1], k)
        IN  /\ \A q \in 1..Len(batch.requests) : batch.requests[q].row # k
            /\ batch.phase \in {"await", "aborted"} => batch.i # k
            /\ ( batch.phase = "complete" \/ ( batch.phase \in {"await", "aborted"} /\ batch.i > k ) ) =>
                  /\ Len(RowsWritten) >= k
                  /\ RowsWritten[k] = rowOf(f, Skip(batch.script, f.customerName))

\* the skip of script.js: remarks "Skipped: Address is empty.", quality "BAD"
SkipOfScript(script, customerName) ==
    [NoVerification EXCEPT !.customerCleanName = Str(customerName),
                           !.remarks = Str(Csv.Skipped),
                           !.addressQuality = Str(Csv.BAD)]

\* the skip of each revision: the revision that reads the line with csvRegex
\* writes "Skipped: Empty Raw Address" and "Low", and no clean name
SkipOfRevision(script, customerName) ==
    IF script = 3
    THEN [NoVerification EXCEPT !.remarks = Str(Csv.Skipped3),
                                !.addressQuality = Str(Csv.Low)]
    ELSE SkipOfScript(script, customerName)

\* C16 as stated: a batch row whose raw address is blank is never sent to the
\* verification endpoint; its output row carries the remark "Skipped: Address
\* is empty." and a low quality marker, and the batch continues with the next
\* row.
C16_BlankRowSkipped == SkippedAs(SkipOfScript)

\* C16 amended: a batch row whose raw address is blank is never sent to the
\* verification endpoint and the batch continues with the next row; its
\* output row carries "Skipped: Address is empty." and "BAD", or, in the
\* revision that reads the line with csvRegex, "Skipped: Empty Raw Address"
\* and "Low".
C16_BlankRowSkippedPerRevision == SkippedAs(SkipOfRevision)

\* a blank row was passed and the row after it was sent to the endpoint
C16_BlankThenSent ==
    \E k \in BlankRows :
        /\ Len(RowsWritten) >= k
        /\ \E q \in 1..Len(batch.requests) : batch.requests[q].row = k + 1

\* what getGeminiResponse returns when the fetch is rejected or the status is
\* not 2xx
TransientFailures ==
    { getGeminiResponse(TRUE, g) :
        g \in { x \in GeminiAnswers : ~x.net \/ x.status \notin 200..299 } }

\* the fetches of the Oracle made in this request
OracleAttempts == Cardinality({ i \in DOMAIN calls : calls[i].op = "oracle" /\ calls[i].fetched })

\* C17: the Oracle call is retried on transient failure (non-2xx status or
\* network error): up to 3 attempts are made before the call is reported as
\* failed, and a response that is structurally valid but wrong is not
\* retried.
C17_OracleRetried ==
    /\ OracleAttempts <= 3
    /\ ( /\ pc = "done"
         /\ OracleAnswered
         /\ apiKeySet
         /\ local.geminiResult \in TransientFailures ) => OracleAttempts = 3
    /\ ( OracleGaveText /\ parseThrows(local.geminiResult.text) ) => OracleAttempts = 1

\* C18: under concurrent requests sharing pincodeCache, a cache entry is
\* immutable once written: after a lookup for PIN p has stored a value, every
\* later lookup for p, from any interleaved request, returns that same value,
\* and no later lookup overwrites it with a different outcome.
C18_EntryImmutable ==
    [][\A k \in CacheKeys :
          pincodeCache[k] # NoEntry =>
             /\ pincodeCache'[k] = pincodeCache[k]
             /\ returned'[k] \in { returned[k], pincodeCache[k] }]_vars

\* s begins with p
StartsWith(s, p) == Len(s) >= Len(p) /\ SubSeq(s, 1, Len(p)) = p

\* the place of a note in the order of generation: the JSON-parse-failure
\* note, the notes of the PIN logic, the semantic notes, then premise,
\* leakage, short address, density, and the note on the remaining text
NoteRank(note) ==
    IF StartsWith(note, RemarkText.JsonFail) THEN 1
    ELSE IF \/ StartsWith(note, RemarkText.DistrictMismatchOpen)
            \/ StartsWith(note, RemarkText.StateMismatchOpen)
            \/ StartsWith(note, RemarkText.DeepCheckOpen) THEN 3
    ELSE IF note = RemarkText.Premise THEN 4
    ELSE IF note = RemarkText.Leakage THEN 5
    ELSE IF StartsWith(note, RemarkText.ShortOpen) THEN 6
    ELSE IF StartsWith(note, RemarkText.DensityOpen) THEN 7
    ELSE IF \/ StartsWith(note, RemarkText.Ambiguous)
            \/ StartsWith(note, RemarkText.Remaining) THEN 8
    ELSE 2

\* the notes pushed before the last checks of the handler: those of the PIN
\* logic and, in the second revision, those of the checks 4.1 to 4.5
EarlyNotes == IF revision = 1 THEN local.remarks ELSE deepChecks(local)

RECURSIVE NoteStart(_, _)
\* where the i-th of the notes starts in a listing with "; " between them
NoteStart(notes, i) ==
    IF i = 1 THEN 1 ELSE NoteStart(notes, i - 1) + Len(notes[i - 1]) + 2

\* what follows the listing of the notes in s
After(s, notes) ==
    LET n == Len(notes)
        from == IF n = 0 THEN 1 ELSE NoteStart(notes, n) + Len(notes[n]) + 2
    IN  IF from > Len(s) THEN <<>> ELSE SubSeq(s, from, Len(s))

\* C19: the remarks string lists the notes in the order of their generation,
\* joined by "; ": the JSON-parse-failure note first, then the notes of the
\* PIN logic, then (second revision) the semantic mismatch notes and the
\* structural notes in the order premise, leakage, short address, density,
\* and the note on the ambiguous or remaining text last; the join reorders
\* and drops no note.
C19_RemarksInOrder ==
    Succeeded =>
        LET s == response.record.remarks.v
            notes == EarlyNotes
            late == After(s, notes)
        IN  /\ \A i \in DOMAIN notes :
                  LET at == NoteStart(notes, i)
                  IN  /\ at + Len(notes[i]) - 1 <= Len(s)
                      /\ SubSeq(s, at, at + Len(notes[i]) - 1) = notes[i]
                      /\ i > 1 => SubSeq(s, at - 2, at - 1) = RemarkText.Sep
            /\ \A i \in DOMAIN notes :
                  /\ NoteRank(notes[i]) < (IF revision = 1 THEN 3 ELSE 8)
                  /\ i > 1 =>
                        LET a == NoteRank(notes[i - 1])
                            b == NoteRank(notes[i])
                        IN  a < b \/ ( a = b /\ a \in {2, 3} )
            /\ \/ late = <<>>
               \/ notes = <<>> /\ late = RemarkText.Default
               \/ /\ notes # <<>> => SubSeq(s, Len(s) - Len(late) - 1,
                                           Len(s) - Len(late)) = RemarkText.Sep
                  /\ IF revision = 1
                     THEN \/ StartsWith(late, RemarkText.ShortOpen)
                          \/ /\ StartsWith(late, RemarkText.Ambiguous)
                             /\ ~includes(late, RemarkText.ShortOpen)
                     ELSE StartsWith(late, RemarkText.Remaining)

\* a response of the second revision with a note of the PIN logic, a note of
\* the structural checks and the note on the remaining text
C19_ThreeKindsOfNotes ==
    /\ Succeeded
    /\ revision = 2
    /\ LET notes == EarlyNotes
       IN  /\ Len(notes) >= 2
           /\ NoteRank(notes[1]) <= 2
           /\ NoteRank(notes[Len(notes)]) \in 4..7
           /\ StartsWith(After(response.record.remarks.v, notes), RemarkText.Remaining)

\* the handler has called getIndiaPostData a second time in this request:
\* the call is pending, or it has returned
SecondLookup ==
    \/ pc = "lookup2"
    \/ \E i, j \in DOMAIN calls : j < i /\ calls[j].op = "oracle" /\ calls[i].op = "lookup"

\* C20: within one request the postal reference lookup is invoked a second
\* time only when the Oracle's PIN differs from the PIN extracted from the raw
\* text; when the two PINs are identical, whether or not the first lookup
\* verified it, getIndiaPostData is not called again.
C20_SecondLookupOnlyOnNewPin ==
    SecondLookup => String(local.parsedData.PIN) # String(local.initialPin)

\* the request is finished, the Oracle answered with an object whose PIN is
\* six digits and differs from the PIN of the raw text (if it has one), and
\* the lookup of the Oracle's PIN is not verified
PinRevertCase ==
    /\ pc = "done"
    /\ OracleGaveText
    /\ ~parseThrows(local.geminiResult.text)
    /\ local.geminiResult.text.doc.k = "object"
    /\ IsExactPin(String(OraclePin))
    /\ String(OraclePin) # String(local.initialPin)
    /\ pincodeCache[String(OraclePin)].PinStatus = "Error"

\* the caution of the branch that rejected the Oracle's PIN
CautionNote ==
    IF revision = 1 THEN note_AiPinReverted(OraclePin, local.initialPin)
    ELSE note_AiPinFailed(OraclePin)

\* the reference of the PIN of the raw text
RawReference == ReferenceOf(local.initialPin)

\* C21 (as stated): when the Oracle's PIN differs from the raw-text PIN and
\* its lookup is unverified, the handler reverts: the output pin equals the
\* raw-text PIN (or null if there was none), the geographic fields come from
\* the raw-text PIN's reference if that was verified, and remarks contain a
\* caution naming the unverified Oracle PIN.
C21_RevertTakesOffice ==
    ( PinRevertCase /\ Succeeded ) =>
        LET rec == response.record
        IN  /\ rec.pin = local.initialPin
            /\ includes(rec.remarks.v, CautionNote)
            /\ RawReference.PinStatus = "Success" =>
                  /\ RawReference.PostOfficeList # <<>>
                  /\ rec.postOffice = RawReference.PostOfficeList[1].Name
                  /\ rec.tehsil = RawReference.PostOfficeList[1].Taluk
                  /\ rec.district = RawReference.PostOfficeList[1].District
                  /\ rec.state = RawReference.PostOfficeList[1].State

\* C21 (amended): in the same case the output pin equals the raw-text PIN (or
\* null if there was none) and remarks contain the caution naming the
\* unverified Oracle PIN; each of postOffice, tehsil, district and state is
\* the field of the first office of the raw-text PIN's verified reference
\* when that field is not empty, and otherwise the Oracle's value for P.O.,
\* Tehsil, DIST. or State, or the empty string.
C21_RevertPrefersOffice ==
    ( PinRevertCase /\ Succeeded ) =>
        LET rec == response.record
            f   == local.parsedData
            office == IF RawReference.PinStatus = "Success" /\ RawReference.PostOfficeList # <<>>
                      THEN RawReference.PostOfficeList[1]
                      ELSE [Name |-> Str(<<>>), Taluk |-> Str(<<>>),
                            District |-> Str(<<>>), State |-> Str(<<>>)]
        IN  /\ rec.pin = local.initialPin
            /\ includes(rec.remarks.v, CautionNote)
            /\ rec.postOffice = Or(Or(office.Name, f.P_O_), Str(<<>>))
            /\ rec.tehsil = Or(Or(office.Taluk, f.Tehsil), Str(<<>>))
            /\ rec.district = Or(Or(office.District, f.DIST_), Str(<<>>))
            /\ rec.state = Or(Or(office.State, f.State), Str(<<>>))

\* 411001 of the raw text is verified, the Oracle's 500081 is not, and the
\* record carries 411001 with the district of its first office
C21_RevertedToRawPin ==
    /\ PinRevertCase
    /\ Succeeded
    /\ local.initialPin = Str(Txt.Pin1)
    /\ RawReference.PinStatus = "Success"
    /\ RawReference.PostOfficeList # <<>>
    /\ response.record.pin = Str(Txt.Pin1)
    /\ response.record.district = Str(Txt.Pune)

\* the places where a directional keyword stands as a word of the address
\* (whatever its case): pairs of the keyword's index and its position
DirectionalWords(address) ==
    LET low == toLowerCase(address)
    IN  { << k, i >> \in (DOMAIN directionalKeywords) \X (1..Len(address)) :
             /\ WordBoundary(low, i)
             /\ LiteralAt(low, directionalKeywords[k], i)
             /\ WordBoundary(low, i + Len(directionalKeywords[k])) }

\* C22: when the Oracle returns a non-blank landmark L, the output landmark is
\* "<prefix> <trimmed L>", where the prefix is the directional qualifier found
\* in the raw address (searched case-insensitively among near, opposite, back
\* side, front side, behind, opp) in the raw address's own casing with its
\* first letter capitalized, or "Near" when none is found; when the Oracle's
\* landmark is blank or null the output landmark is empty.
C22_LandmarkPrefixed ==
    Succeeded =>
        LET L == local.parsedData.Landmark
            value == IF Truthy(L) THEN trim(String(L)) ELSE <<>>
            a == local.address.v
            found == DirectionalWords(a)
            landmark == response.record.landmark
        IN  IF value = <<>> THEN landmark = Str(<<>>)
            ELSE IF found = {} THEN landmark = Str(RemarkText.Near \o << " " >> \o value)
            ELSE \E w \in found :
                    LET word == SubSeq(a, w[2], w[2] + Len(directionalKeywords[w[1]]) - 1)
                    IN  landmark = Str(<< ToUpperChar(word[1]) >> \o Tail(word)
                                       \o << " " >> \o value)

\* the Oracle's object names no premise: none of H.no., Flat No., Plot No.,
\* Room No. and Building No. has a value
NoPremise ==
    LET f == local.parsedData
    IN  ~( \/ Truthy(f.H_no_) \/ Truthy(f.Flat_No_) \/ Truthy(f.Plot_No_)
           \/ Truthy(f.Room_No_) \/ Truthy(f.Building_No_) )

\* C23: in every Success record of the second revision whose addressQuality
\* is not top-tier (Medium, Bad or Very Bad, the "Medium" given when the
\* Oracle gave no rating included) and for which the Oracle found no premise,
\* house, flat or plot number, remarks contain the critical note "No
\* House/Flat/Plot Number found".
C23_PremiseNoteOnLowQuality ==
    ( /\ Succeeded
      /\ revision = 2
      /\ response.record.addressQuality \in { Str(Txt.Medium), Str(Txt.Bad), Str(Txt.VeryBad) }
      /\ NoPremise ) =>
        includes(response.record.remarks.v, RemarkText.Premise)

\* C24: the semantic district (or state) mismatch note is logged only when a
\* verified reference exists, the Oracle's district (or state) differs from
\* the reference's, and the Oracle's conflicting place-name literally appears
\* in the raw input text; it is never logged for a place-name that does not
\* occur in the raw address.
C24_MismatchOnlyForNamesInAddress ==
    ( Succeeded /\ revision = 2 ) =>
        LET f == local.parsedData
            po == local.primaryPostOffice
            raw == toLowerCase(local.address.v)
            remarks == response.record.remarks.v
        IN  /\ includes(remarks, RemarkText.DistrictMismatchOpen) =>
                  /\ local.postalData.PinStatus = "Success"
                  /\ toLowerCase(String(po.District)) # toLowerCase(String(f.DIST_))
                  /\ includes(raw, toLowerCase(String(f.DIST_)))
            /\ includes(remarks, RemarkText.StateMismatchOpen) =>
                  /\ local.postalData.PinStatus = "Success"
                  /\ toLowerCase(String(po.State)) # toLowerCase(String(f.State))
                  /\ includes(raw, toLowerCase(String(f.State)))

\* C27: in both revisions of the handler the default note "Address verified
\* and formatted successfully." is never emitted: on every path the PIN
\* logic has pushed at least one remark (verified, corrected, inferred,
\* unverified or not found) before the last step, getIndiaPostData returning
\* the cached result for a PIN already looked up in the same request.
C27_DefaultNoteNeverEmitted ==
    Succeeded =>
        /\ local.remarks # <<>>
        /\ ~includes(response.record.remarks.v, RemarkText.Default)

\* a response whose only remark is the one the PIN logic pushed
C27_OnlyThePinRemark ==
    /\ Succeeded
    /\ Len(local.remarks) = 1
    /\ response.record.remarks = Str(local.remarks[1])

\* the calls of this request that are calls of op
CallsOf(op) == { i \in DOMAIN calls : calls[i].op = op }

\* C28: each request calls the Oracle at most once and getIndiaPostData at
\* most twice, in the fixed order: the initial lookup (only if the raw text
\* has a 6-digit PIN), then the Oracle call, then at most one re-verification
\* lookup; a request with a missing or empty address makes no lookup and no
\* Oracle call, and a request whose Oracle call fails makes no second lookup.
C28_CallsInOrder ==
    /\ Cardinality(CallsOf("oracle")) <= 1
    /\ Cardinality(CallsOf("lookup")) <= 2
    /\ \A i \in CallsOf("lookup") :
          \/ i = 1 /\ PinMatches(String(local.address)) # {}
          \/ i = Len(calls) /\ i - 1 \in CallsOf("oracle")
    /\ \A i \in CallsOf("oracle") :
          i = 1 \/ ( i = 2 /\ 1 \in CallsOf("lookup") )
    /\ ~Truthy(local.address) => calls = <<>> /\ pc \in {"idle", "done"}
    /\ ( OracleAnswered /\ geminiFailed(local.geminiResult) ) =>
          /\ pc = "done"
          /\ calls[Len(calls)].op = "oracle"

\* a finished request that made the three calls
C28_ThreeCalls ==
    /\ pc = "done"
    /\ Len(calls) = 3
    /\ calls[1].op = "lookup" /\ calls[2].op = "oracle" /\ calls[3].op = "lookup"


\* C29: in the batch page of script.js no request is issued while
\* sessionStorage holds no bulkAccessCode: a run that waits for an answer has
\* read the code that is stored, and every request of a run was sent with a
\* code.  An Unauthorized Access abort removes the code and enables the
\* process button and the file input again, and from then on every run
\* issues no request until a code is stored anew.
C29_NoRequestWithoutCode ==
    batch.script = 1 =>
        /\ batch.phase = "await" => Truthy(batch.stored) /\ batch.accessCode = batch.stored
        /\ batch.requests # <<>> => Truthy(batch.accessCode)
        /\ batch.phase = "aborted" =>
              /\ batch.stored = Null
              /\ batch.revoked
              /\ ~batch.disabled.processButton
              /\ ~batch.disabled.fileInput
        /\ batch.revoked =>
              /\ batch.stored = Null
              /\ batch.phase # "aborted" => batch.requests = <<>>

\* a file with rows to verify was chosen after a run had been aborted on
\* Unauthorized Access: the run stopped at the missing code and sent nothing
C29_RunAfterAbortSendsNothing ==
    /\ batch.script = 1
    /\ batch.revoked
    /\ batch.phase = "rejected"
    /\ Len(batch.file.entries) >= 2
    /\ batch.file.header = Csv.Header
    /\ ~isBlankAddress(1, batch.file.entries[1].rawAddress)
    /\ batch.requests = <<>>
    /\ ~batch.disabled.processButton


\* C30: in the single-address page a result of status "Error" (an Error object
\* of the server, a network error, a 401) is rendered by displayErrorResult
\* with its error message, and displayResults, which shows "No issues found."
\* when there are no remarks, is called for results of status "Success" only.
C30_ErrorsRenderedAsErrors ==
    batch.single.phase = "shown" =>
        LET r == batch.single.result
        IN  /\ r.status = "Error" =>
                  /\ batch.single.rendered = "displayErrorResult"
                  /\ batch.single.remarks = String(r.error)
            /\ batch.single.rendered = "displayResults" => r.status = "Success"


\* C25: verifyAddressApi resolves, after at most three attempts, to an object
\* with a status field, the data of status "Success" or a status "Error"
\* object with its error, whatever the attempts were answered with (success,
\* 429, another status, a network error); it never resolves to undefined, so
\* that the loop of the click handler, which reads apiResult.status, handles
\* every record of the file.
C25_AlwaysAnObjectWithStatus ==
    batch.script = 4 =>
        /\ batch.phase # "crashed"
        /\ \A k \in DOMAIN batch.settled :
              /\ ~batch.settled[k].undefined
              /\ batch.settled[k].result.status \in {"Success", "Error"}
              /\ batch.settled[k].result.status = "Error" =>
                     Truthy(batch.settled[k].result.error)
              /\ batch.requests[k] <= 3
        /\ batch.phase = "complete" => Len(batch.outputRows) = Len(batch.lines)


\* the request in hand presented the admin secret that is configured
PresentedSecret ==
    /\ admin.secretKey # Undefined
    /\ admin.headerSecret = admin.secretKey

\* C26: the admin endpoint is closed to the public: a request that does not
\* present the configured admin secret in x-admin-secret has no insert into
\* clients made for it and receives no new API key, whatever the environment
\* holds, ADMIN_SECRET_KEY being unset included; it is answered 401 whatever
\* its method and body, for the secret is tested first.
C26_NoSecretNoClient ==
    ( admin.phase # "idle" /\ ~PresentedSecret )
    => /\ admin.phase = "done"
       /\ admin.row = Undefined
       /\ admin.new_api_key = Undefined
       /\ admin.http = 401

====
